---- MODULE Spec2Model ----
(***************************************************************************)
(* Query routing of the financial research agent: the symbol resolver and  *)
(* the intent classifier of analyst.py, and the router stage of            *)
(* research_agent.py with the conversation memory it reads.                *)
(*                                                                         *)
(* Python strings are TLA+ strings; TLC evaluates Len, SubSeq and \o on    *)
(* them, so every substring test, regular expression and replacement of    *)
(* the source is computed character by character.                          *)
(***************************************************************************)
EXTENDS Integers, Sequences, FiniteSets, TLC

(***************************************************************************)
(* Python str primitives                                                   *)
(***************************************************************************)
UpperChars == "ABCDEFGHIJKLMNOPQRSTUVWXYZ"
LowerChars == "abcdefghijklmnopqrstuvwxyz"
DigitChars == "0123456789"
\* \w of the re module on the ASCII part of the alphabet
WordChars == UpperChars \o LowerChars \o DigitChars \o "_"
\* str.isspace / \s on the ASCII part of the alphabet
SpaceChars == " \t\n\r\f"

\* s[i], 1-based
CharAt(s, i) == SubSeq(s, i, i)

\* the characters of a string, as a set
CharsOf(s) == {CharAt(s, i) : i \in 1..Len(s)}

UpperSet == CharsOf(UpperChars)
LowerSet == CharsOf(LowerChars)
WordSet  == CharsOf(WordChars)
SpaceSet == CharsOf(SpaceChars)

\* every substring of s, the empty one included
Substrings(s) == {""} \cup {SubSeq(s, i, j) : i \in 1..Len(s), j \in 1..Len(s)}

\* sub in s
Contains(s, sub) ==
  \E i \in 0..(Len(s) - Len(sub)) : SubSeq(s, i + 1, i + Len(sub)) = sub

\* any(w in s for w in words), words a sequence of strings
ContainsAny(s, words) == \E k \in 1..Len(words) : Contains(s, words[k])

ToLower == [c \in UpperSet |->
              CharAt(LowerChars, CHOOSE i \in 1..26 : CharAt(UpperChars, i) = c)]
ToUpper == [c \in LowerSet |->
              CharAt(UpperChars, CHOOSE i \in 1..26 : CharAt(LowerChars, i) = c)]

LowerChar(c) == IF c \in UpperSet THEN ToLower[c] ELSE c
UpperChar(c) == IF c \in LowerSet THEN ToUpper[c] ELSE c

\* the characters lo..hi of s mapped one by one, by halves
RECURSIVE MapChars(_, _, _, _)
MapChars(s, lo, hi, up) ==
  IF lo > hi THEN ""
  ELSE IF lo = hi THEN (IF up THEN UpperChar(CharAt(s, lo)) ELSE LowerChar(CharAt(s, lo)))
  ELSE MapChars(s, lo, (lo + hi) \div 2, up) \o MapChars(s, (lo + hi) \div 2 + 1, hi, up)

\* str.lower()
lower(s) == MapChars(s, 1, Len(s), FALSE)
\* str.upper()
upper(s) == MapChars(s, 1, Len(s), TRUE)

\* str.strip()
RECURSIVE FirstNonSpace(_, _)
FirstNonSpace(s, i) ==
  IF i > Len(s) \/ CharAt(s, i) \notin SpaceSet THEN i ELSE FirstNonSpace(s, i + 1)

RECURSIVE LastNonSpace(_, _)
LastNonSpace(s, i) ==
  IF i < 1 \/ CharAt(s, i) \notin SpaceSet THEN i ELSE LastNonSpace(s, i - 1)

strip(s) ==
  IF FirstNonSpace(s, 1) > Len(s) THEN ""
  ELSE SubSeq(s, FirstNonSpace(s, 1), LastNonSpace(s, Len(s)))

\* len(s.split()): the number of maximal runs of non-whitespace
SplitCount(s) ==
  Cardinality({i \in 1..Len(s) :
      /\ CharAt(s, i) \notin SpaceSet
      /\ (i = 1 \/ CharAt(s, i - 1) \in SpaceSet)})

\* s.replace(old, new): every non-overlapping occurrence, scanning left to right
RECURSIVE ReplaceFrom(_, _, _, _)
ReplaceFrom(s, old, new, i) ==
  IF i > Len(s) THEN ""
  ELSE IF i + Len(old) - 1 <= Len(s) /\ SubSeq(s, i, i + Len(old) - 1) = old
    THEN new \o ReplaceFrom(s, old, new, i + Len(old))
    ELSE CharAt(s, i) \o ReplaceFrom(s, old, new, i + 1)

replace(s, old, new) == ReplaceFrom(s, old, new, 1)

\* ", ".join(xs)
RECURSIVE join(_, _)
join(sep, xs) ==
  IF xs = <<>> THEN ""
  ELSE IF Len(xs) = 1 THEN xs[1]
  ELSE xs[1] \o sep \o join(sep, Tail(xs))

\* [x for x in xs if keep(x)] over a sequence
RECURSIVE FilterSeq(_, _)
FilterSeq(xs, keep) ==
  IF xs = <<>> THEN <<>>
  ELSE (IF Head(xs) \in keep THEN <<Head(xs)>> ELSE <<>>) \o FilterSeq(Tail(xs), keep)

Range(xs) == {xs[i] : i \in 1..Len(xs)}

(***************************************************************************)
(* The re module: patterns as syntax trees, searched by computing the set  *)
(* of offsets at which a match can end.  Offsets count the characters      *)
(* consumed, 0..Len(s).                                                    *)
(***************************************************************************)
Unbounded == -1

Lit(str)        == [op |-> "lit", s |-> str]
\* a character class, given by the string of its characters
In(chars)       == [op |-> "in", s |-> CharsOf(chars)]
AnyChar         == [op |-> "any"]
Bol             == [op |-> "bol"]
WordBoundary    == [op |-> "wb"]
Cat(rs)         == [op |-> "cat", a |-> rs]
Alt(rs)         == [op |-> "alt", a |-> rs]
Rep(r, lo, hi)  == [op |-> "rep", r |-> r, lo |-> lo, hi |-> hi]
Plus(r)         == Rep(r, 1, Unbounded)
Star(r)         == Rep(r, 0, Unbounded)
Opt(r)          == Rep(r, 0, 1)
Space           == In(SpaceChars)

\* is the character before offset p+1 (i.e. s[p]) a word character
IsWordAt(s, i) == i >= 1 /\ i <= Len(s) /\ CharAt(s, i) \in WordSet

RECURSIVE Ends(_, _, _)
RECURSIVE EndsCat(_, _, _, _)
RECURSIVE EndsRep(_, _, _, _, _)
RECURSIVE EndsClosure(_, _, _, _, _)

\* the offsets where a match of r that starts at an offset of P can end
Ends(r, s, P) ==
  CASE r.op = "lit" ->
         {p + Len(r.s) : p \in {q \in P : q + Len(r.s) <= Len(s)
                                          /\ SubSeq(s, q + 1, q + Len(r.s)) = r.s}}
    [] r.op = "in"  ->
         {p + 1 : p \in {q \in P : q < Len(s) /\ CharAt(s, q + 1) \in r.s}}
    [] r.op = "any" ->
         {p + 1 : p \in {q \in P : q < Len(s) /\ CharAt(s, q + 1) # "\n"}}
    [] r.op = "bol" -> P \cap {0}
    [] r.op = "wb"  -> {p \in P : IsWordAt(s, p) # IsWordAt(s, p + 1)}
    [] r.op = "cat" -> EndsCat(r.a, 1, s, P)
    [] r.op = "alt" -> UNION {Ends(r.a[k], s, P) : k \in 1..Len(r.a)}
    [] r.op = "rep" -> EndsRep(r.r, r.lo, r.hi, s, P)

EndsCat(rs, k, s, P) ==
  IF k > Len(rs) \/ P = {} THEN P
  ELSE EndsCat(rs, k + 1, s, Ends(rs[k], s, P))

\* lo mandatory repetitions, then up to hi - lo optional ones
EndsRep(r, lo, hi, s, P) ==
  IF P = {} THEN {}
  ELSE IF lo > 0
    THEN EndsRep(r, lo - 1, IF hi = Unbounded THEN hi ELSE hi - 1, s, Ends(r, s, P))
    ELSE EndsClosure(r, hi, s, P, P)

EndsClosure(r, budget, s, frontier, seen) ==
  IF budget = 0 \/ frontier = {} THEN seen
  ELSE LET nxt == Ends(r, s, frontier) \ seen
       IN  EndsClosure(r, IF budget = Unbounded THEN budget ELSE budget - 1,
                       s, nxt, seen \cup nxt)

\* bool(re.search(pattern, s))
search(pattern, s) == Ends(pattern, s, 0..Len(s)) # {}

\* any(re.search(p, s) for p in patterns)
SearchAny(patterns, s) == \E k \in 1..Len(patterns) : search(patterns[k], s)

\* re.findall(pattern, s) for a pattern without groups: the leftmost match at
\* or after offset p, the longest the greedy quantifiers allow, then on from
\* its end
RECURSIVE FindAllFrom(_, _, _)
FindAllFrom(pattern, s, p) ==
  IF p > Len(s) THEN <<>>
  ELSE LET ends == Ends(pattern, s, {p})
       IN  IF ends = {} THEN FindAllFrom(pattern, s, p + 1)
           ELSE LET e == CHOOSE x \in ends : \A y \in ends : y <= x
                IN  IF e = p THEN FindAllFrom(pattern, s, p + 1)
                    ELSE <<SubSeq(s, p + 1, e)>> \o FindAllFrom(pattern, s, e)

findall(pattern, s) == FindAllFrom(pattern, s, 0)

(***************************************************************************)
(* analyst.py, market_tools.py: the static tables                          *)
(***************************************************************************)
\* STOCK_NAME_MAP in the order of the dict literal: <<alias, symbol>>
STOCK_NAME_MAP == <<
    <<"zomato", "ZOMATO">>, <<"swiggy", "SWIGGY">>, <<"paytm", "PAYTM">>,
    <<"one97", "PAYTM">>, <<"nykaa", "NYKAA">>,
    <<"policybazaar", "POLICYBZR">>, <<"delhivery", "DELHIVERY">>,
    <<"irctc", "IRCTC">>, <<"easemytrip", "EASEMYTRIP">>,
    <<"jio financial", "JIOFIN">>, <<"jio", "JIOFIN">>, <<"tcs", "TCS">>,
    <<"infosys", "INFY">>, <<"infy", "INFY">>, <<"wipro", "WIPRO">>,
    <<"hcl tech", "HCLTECH">>, <<"hcltech", "HCLTECH">>,
    <<"tech mahindra", "TECHM">>, <<"techm", "TECHM">>,
    <<"persistent", "PERSISTENT">>, <<"coforge", "COFORGE">>,
    <<"ltimindtree", "LTIM">>, <<"hdfc bank", "HDFCBANK">>,
    <<"hdfcbank", "HDFCBANK">>, <<"icici bank", "ICICIBANK">>,
    <<"icicibank", "ICICIBANK">>, <<"sbi", "SBIN">>,
    <<"kotak", "KOTAKBANK">>, <<"axis bank", "AXISBANK">>,
    <<"indusind", "INDUSINDBK">>, <<"federal bank", "FEDERALBNK">>,
    <<"bandhan bank", "BANDHANBNK">>, <<"idfc first", "IDFCFIRSTB">>,
    <<"reliance", "RELIANCE">>, <<"ril", "RELIANCE">>, <<"ongc", "ONGC">>,
    <<"bpcl", "BPCL">>, <<"ntpc", "NTPC">>, <<"power grid", "POWERGRID">>,
    <<"tata power", "TATAPOWER">>, <<"adani green", "ADANIGREEN">>,
    <<"adani enterprises", "ADANIENT">>, <<"adani ports", "ADANIPORTS">>,
    <<"adani", "ADANIENT">>, <<"bharti airtel", "BHARTIARTL">>,
    <<"airtel", "BHARTIARTL">>, <<"itc", "ITC">>, <<"hul", "HINDUNILVR">>,
    <<"hindustan unilever", "HINDUNILVR">>, <<"maruti", "MARUTI">>,
    <<"tata motors", "TATAMOTORS">>, <<"bajaj finance", "BAJFINANCE">>,
    <<"asian paints", "ASIANPAINT">>, <<"sun pharma", "SUNPHARMA">>,
    <<"dr reddy", "DRREDDY">>, <<"titan", "TITAN">>, <<"l&t", "LT">>,
    <<"larsen", "LT">>, <<"tata steel", "TATASTEEL">>,
    <<"jsw steel", "JSWSTEEL">>, <<"hindalco", "HINDALCO">>,
    <<"coal india", "COALINDIA">>, <<"ultratech", "ULTRACEMCO">>,
    <<"cipla", "CIPLA">>, <<"apollo hospitals", "APOLLOHOSP">>,
    <<"apollo", "APOLLOHOSP">>, <<"divis lab", "DIVISLAB">>,
    <<"hdfc life", "HDFCLIFE">>, <<"sbi life", "SBILIFE">>,
    <<"bajaj finserv", "BAJAJFINSV">>, <<"mahindra", "M&M">>,
    <<"m&m", "M&M">>, <<"eicher", "EICHERMOT">>,
    <<"hero motocorp", "HEROMOTOCO">>, <<"hal", "HAL">>, <<"bel", "BEL">>,
    <<"vedanta", "VEDL">>, <<"apple", "AAPL">>, <<"aapl", "AAPL">>,
    <<"google", "GOOGL">>, <<"googl", "GOOGL">>, <<"alphabet", "GOOGL">>,
    <<"microsoft", "MSFT">>, <<"msft", "MSFT">>, <<"amazon", "AMZN">>,
    <<"amzn", "AMZN">>, <<"tesla", "TSLA">>, <<"tsla", "TSLA">>,
    <<"meta", "META">>, <<"facebook", "META">>, <<"nvidia", "NVDA">>,
    <<"nvda", "NVDA">>, <<"netflix", "NFLX">>, <<"nflx", "NFLX">>,
    <<"amd", "AMD">>, <<"intel", "INTC">>, <<"intc", "INTC">>,
    <<"salesforce", "CRM">>, <<"crm", "CRM">>, <<"oracle", "ORCL">>,
    <<"orcl", "ORCL">>, <<"paypal", "PYPL">>, <<"pypl", "PYPL">>,
    <<"disney", "DIS">>, <<"dis", "DIS">>, <<"boeing", "BA">>,
    <<"jpmorgan", "JPM">>, <<"jp morgan", "JPM">>, <<"jpm", "JPM">>,
    <<"goldman sachs", "GS">>, <<"goldman", "GS">>, <<"visa", "V">>,
    <<"mastercard", "MA">>, <<"walmart", "WMT">>, <<"wmt", "WMT">>,
    <<"coca cola", "KO">>, <<"coca-cola", "KO">>, <<"coke", "KO">>,
    <<"pepsi", "PEP">>, <<"pepsico", "PEP">>, <<"pfizer", "PFE">>,
    <<"exxon", "XOM">>, <<"exxon mobil", "XOM">>, <<"chevron", "CVX">>,
    <<"berkshire", "BRK-B">>, <<"berkshire hathaway", "BRK-B">>,
    <<"spotify", "SPOT">>, <<"uber", "UBER">>, <<"airbnb", "ABNB">>,
    <<"snowflake", "SNOW">>, <<"palantir", "PLTR">>,
    <<"coinbase", "COIN">>, <<"block", "SQ">>, <<"square", "SQ">>,
    <<"shopify", "SHOP">>, <<"zoom", "ZM">>, <<"alibaba", "BABA">>,
    <<"tsmc", "TSM">>, <<"sony", "SONY">>, <<"nike", "NKE">>,
    <<"starbucks", "SBUX">>, <<"bitcoin", "BTC">>, <<"btc", "BTC">>,
    <<"ethereum", "ETH">>, <<"eth", "ETH">>, <<"solana", "SOL">>,
    <<"sol", "SOL">>, <<"ripple", "XRP">>, <<"xrp", "XRP">>,
    <<"cardano", "ADA">>, <<"ada", "ADA">>, <<"dogecoin", "DOGE">>,
    <<"doge", "DOGE">>, <<"polkadot", "DOT">>, <<"avalanche", "AVAX">>,
    <<"polygon", "MATIC">>, <<"chainlink", "LINK">>, <<"bnb", "BNB">>,
    <<"cryptocurrency", "__CRYPTO_GENERAL__">>,
    <<"crypto", "__CRYPTO_GENERAL__">>, <<"gold", "GOLD">>,
    <<"silver", "SILVER">>, <<"crude oil", "CRUDE">>, <<"crude", "CRUDE">>,
    <<"oil", "CRUDE">>, <<"natural gas", "NATURALGAS">>
  >>

\* the keys of SYMBOL_MAP (the resolver only tests membership)
SYMBOL_MAP == {
    "TCS", "INFY", "WIPRO", "HCLTECH", "TECHM", "LTI", "LTIM",
    "PERSISTENT", "COFORGE", "HDFCBANK", "ICICIBANK", "SBIN", "KOTAKBANK",
    "AXISBANK", "BANKBARODA", "PNB", "INDUSINDBK", "IDFCFIRSTB",
    "BANDHANBNK", "FEDERALBNK", "RELIANCE", "ONGC", "BPCL", "IOC", "NTPC",
    "POWERGRID", "ADANIGREEN", "ADANIENT", "ADANIPORTS", "ADANIPOWER",
    "ZOMATO", "PAYTM", "ONEPAYTM", "ONE97", "NYKAA", "POLICYBZR",
    "DELHIVERY", "CARTRADE", "EASEMYTRIP", "IRCTC", "JIOFIN", "SWIGGY",
    "BHARTIARTL", "ITC", "HINDUNILVR", "MARUTI", "TATAMOTORS",
    "BAJFINANCE", "ASIANPAINT", "SUNPHARMA", "DRREDDY", "TITAN", "LT",
    "TATASTEEL", "JSWSTEEL", "HINDALCO", "COALINDIA", "ULTRACEMCO",
    "GRASIM", "CIPLA", "APOLLOHOSP", "DIVISLAB", "HDFCLIFE", "SBILIFE",
    "BAJAJFINSV", "M&M", "MAHINDRA", "EICHERMOT", "HEROMOTOCO",
    "TATAPOWER", "HAL", "BEL", "VEDL", "NIFTY50", "SENSEX", "BANKNIFTY",
    "NIFTYIT", "AAPL", "APPLE", "GOOGL", "GOOGLE", "GOOG", "ALPHABET",
    "MSFT", "MICROSOFT", "AMZN", "AMAZON", "TSLA", "TESLA", "META",
    "FACEBOOK", "FB", "NVDA", "NVIDIA", "NFLX", "NETFLIX", "AMD", "INTC",
    "INTEL", "CRM", "SALESFORCE", "ORCL", "ORACLE", "PYPL", "PAYPAL",
    "DIS", "DISNEY", "BA", "BOEING", "JPM", "JPMORGAN", "GS", "GOLDMAN",
    "V", "VISA", "MA", "MASTERCARD", "WMT", "WALMART", "KO", "COCACOLA",
    "COCA-COLA", "PEP", "PEPSI", "JNJ", "PFE", "PFIZER", "UNH", "XOM",
    "EXXON", "CVX", "CHEVRON", "BRK-B", "BERKSHIRE", "SPOT", "SPOTIFY",
    "UBER", "ABNB", "AIRBNB", "SNOW", "SNOWFLAKE", "PLTR", "PALANTIR",
    "COIN", "COINBASE", "SQ", "BLOCK", "SHOP", "SHOPIFY", "ZM", "ZOOM",
    "BABA", "ALIBABA", "TSM", "TSMC", "SONY", "NKE", "NIKE", "SBUX",
    "STARBUCKS", "SPX", "SP500", "S&P500", "S&P", "DOWJONES", "DOW", "DJI",
    "NASDAQ", "NASDAQCOMP", "VIX", "RUSSELL2000", "BTC", "BITCOIN",
    "BTC-USD", "ETH", "ETHEREUM", "ETH-USD", "SOL", "SOLANA", "SOL-USD",
    "BNB", "BNB-USD", "XRP", "RIPPLE", "XRP-USD", "ADA", "CARDANO",
    "ADA-USD", "DOGE", "DOGECOIN", "DOGE-USD", "DOT", "POLKADOT", "AVAX",
    "AVALANCHE", "MATIC", "POLYGON", "LINK", "CHAINLINK", "GOLD", "SILVER",
    "CRUDE", "CRUDEOIL", "NATURALGAS"
  }

\* class QueryRoute
STOCK_PRICE     == "STOCK_PRICE"
RECOMMENDATIONS == "RECOMMENDATIONS"
FUNDAMENTALS    == "FUNDAMENTALS"
COMPARISON      == "COMPARISON"
TECHNICALS      == "TECHNICALS"
NEWS_SEARCH     == "NEWS_SEARCH"
PORTFOLIO       == "PORTFOLIO"
DISCOVERY       == "DISCOVERY"
GENERAL_MARKET  == "GENERAL"
CONVERSATIONAL  == "CHAT"

QueryRoute == {STOCK_PRICE, RECOMMENDATIONS, FUNDAMENTALS, COMPARISON, TECHNICALS,
               NEWS_SEARCH, PORTFOLIO, DISCOVERY, GENERAL_MARKET, CONVERSATIONAL}

\* matched_route = None
None == "None"

INTENT_PATTERNS == <<
  [route |-> COMPARISON,
   patterns |-> <<
       \* compare\s+.+\s+(and|vs|versus|with)\s+
       Cat(<<Lit("compare"), Plus(Space), Plus(AnyChar), Plus(Space), Alt(<<Lit("and"), Lit("vs"), Lit("versus"), Lit("with")>>), Plus(Space)>>),
       \* (difference|comparison)\s+between\s+
       Cat(<<Alt(<<Lit("difference"), Lit("comparison")>>), Plus(Space), Lit("between"), Plus(Space)>>),
       \* .+\s+vs\.?\s+.+
       Cat(<<Plus(AnyChar), Plus(Space), Lit("vs"), Opt(Lit(".")), Plus(Space), Plus(AnyChar)>>),
       \* which\s+is\s+better.+\s+(or|vs)\s+
       Cat(<<Lit("which"), Plus(Space), Lit("is"), Plus(Space), Lit("better"), Plus(AnyChar), Plus(Space), Alt(<<Lit("or"), Lit("vs")>>), Plus(Space)>>),
       \* head\s*to\s*head
       Cat(<<Lit("head"), Star(Space), Lit("to"), Star(Space), Lit("head")>>)>>,
   keywords |-> <<
       "compare", "comparison", "versus", "vs", "head to head",
       "which is better", "difference between">>],
  [route |-> STOCK_PRICE,
   patterns |-> <<
       \* (what'?s|what\s+is|get|show|tell)\s+(the\s+)?(current\s+)?(stock\s+)?(price|value|quote)
       Cat(<<Alt(<<Cat(<<Lit("what"), Opt(Lit("'")), Lit("s")>>), Cat(<<Lit("what"), Plus(Space), Lit("is")>>), Lit("get"), Lit("show"), Lit("tell")>>), Plus(Space), Opt(Cat(<<Lit("the"), Plus(Space)>>)), Opt(Cat(<<Lit("current"), Plus(Space)>>)), Opt(Cat(<<Lit("stock"), Plus(Space)>>)), Alt(<<Lit("price"), Lit("value"), Lit("quote")>>)>>),
       \* (price|quote)\s+(of|for)\s+
       Cat(<<Alt(<<Lit("price"), Lit("quote")>>), Plus(Space), Alt(<<Lit("of"), Lit("for")>>), Plus(Space)>>),
       \* how\s+much\s+(is|does|are)\s+
       Cat(<<Lit("how"), Plus(Space), Lit("much"), Plus(Space), Alt(<<Lit("is"), Lit("does"), Lit("are")>>), Plus(Space)>>),
       \* (stock|share)\s+price
       Cat(<<Alt(<<Lit("stock"), Lit("share")>>), Plus(Space), Lit("price")>>),
       \* (current|live|today).{0,10}(price|value|trading)
       Cat(<<Alt(<<Lit("current"), Lit("live"), Lit("today")>>), Rep(AnyChar, 0, 10), Alt(<<Lit("price"), Lit("value"), Lit("trading")>>)>>)>>,
   keywords |-> <<
       "current price", "stock price", "share price", "price of",
       "trading at", "how much is", "quote for", "price today">>],
  [route |-> RECOMMENDATIONS,
   patterns |-> <<
       \* (analyst|broker|wall\s*street)\s+(recommend|rating|target|opinion|view|consensus)
       Cat(<<Alt(<<Lit("analyst"), Lit("broker"), Cat(<<Lit("wall"), Star(Space), Lit("street")>>)>>), Plus(Space), Alt(<<Lit("recommend"), Lit("rating"), Lit("target"), Lit("opinion"), Lit("view"), Lit("consensus")>>)>>),
       \* (recommend|rating|target\s+price)\s+(for|of|on)\s+
       Cat(<<Alt(<<Lit("recommend"), Lit("rating"), Cat(<<Lit("target"), Plus(Space), Lit("price")>>)>>), Plus(Space), Alt(<<Lit("for"), Lit("of"), Lit("on")>>), Plus(Space)>>),
       \* (buy|sell|hold)\s+recommend
       Cat(<<Alt(<<Lit("buy"), Lit("sell"), Lit("hold")>>), Plus(Space), Lit("recommend")>>),
       \* (should\s+i\s+buy|is\s+it\s+a\s+good\s+buy)
       Alt(<<Cat(<<Lit("should"), Plus(Space), Lit("i"), Plus(Space), Lit("buy")>>), Cat(<<Lit("is"), Plus(Space), Lit("it"), Plus(Space), Lit("a"), Plus(Space), Lit("good"), Plus(Space), Lit("buy")>>)>>),
       \* (target\s+price|price\s+target)
       Alt(<<Cat(<<Lit("target"), Plus(Space), Lit("price")>>), Cat(<<Lit("price"), Plus(Space), Lit("target")>>)>>),
       \* (upgrade|downgrade)
       Alt(<<Lit("upgrade"), Lit("downgrade")>>)>>,
   keywords |-> <<
       "analyst", "recommendation", "recommendations", "target price",
       "price target", "rating", "ratings", "upgrade", "downgrade",
       "consensus", "broker", "wall street", "should i buy", "good buy",
       "worth buying">>],
  [route |-> FUNDAMENTALS,
   patterns |-> <<
       \* fundamental(s)?\s+(of|for|analysis)
       Cat(<<Lit("fundamental"), Opt(Lit("s")), Plus(Space), Alt(<<Lit("of"), Lit("for"), Lit("analysis")>>)>>),
       \* (financials|financial\s+data|financial\s+health)\s+(of|for)
       Cat(<<Alt(<<Lit("financials"), Cat(<<Lit("financial"), Plus(Space), Lit("data")>>), Cat(<<Lit("financial"), Plus(Space), Lit("health")>>)>>), Plus(Space), Alt(<<Lit("of"), Lit("for")>>)>>),
       \* (pe\s+ratio|p/e|market\s+cap|revenue|earnings|profit|margin|debt|balance\s+sheet|income\s+statement)
       Alt(<<Cat(<<Lit("pe"), Plus(Space), Lit("ratio")>>), Lit("p/e"), Cat(<<Lit("market"), Plus(Space), Lit("cap")>>), Lit("revenue"), Lit("earnings"), Lit("profit"), Lit("margin"), Lit("debt"), Cat(<<Lit("balance"), Plus(Space), Lit("sheet")>>), Cat(<<Lit("income"), Plus(Space), Lit("statement")>>)>>),
       \* (valuation|overvalued|undervalued|fair\s+value)
       Alt(<<Lit("valuation"), Lit("overvalued"), Lit("undervalued"), Cat(<<Lit("fair"), Plus(Space), Lit("value")>>)>>),
       \* (dividend|yield|payout|eps|book\s+value|roe|roa)
       Alt(<<Lit("dividend"), Lit("yield"), Lit("payout"), Lit("eps"), Cat(<<Lit("book"), Plus(Space), Lit("value")>>), Lit("roe"), Lit("roa")>>)>>,
   keywords |-> <<
       "fundamentals", "fundamental analysis", "financials",
       "financial data", "pe ratio", "p/e", "market cap", "revenue",
       "earnings per share", "eps", "profit margin", "debt",
       "balance sheet", "income statement", "valuation", "overvalued",
       "undervalued", "fair value", "book value", "roe", "roa",
       "dividend yield", "payout ratio", "financial health">>],
  [route |-> TECHNICALS,
   patterns |-> <<
       \* technical\s+(analysis|indicator|signal|chart)
       Cat(<<Lit("technical"), Plus(Space), Alt(<<Lit("analysis"), Lit("indicator"), Lit("signal"), Lit("chart")>>)>>),
       \* (rsi|macd|bollinger|moving\s+average|sma|ema|support|resistance)
       Alt(<<Lit("rsi"), Lit("macd"), Lit("bollinger"), Cat(<<Lit("moving"), Plus(Space), Lit("average")>>), Lit("sma"), Lit("ema"), Lit("support"), Lit("resistance")>>),
       \* (overbought|oversold|momentum|trend\s+analysis)
       Alt(<<Lit("overbought"), Lit("oversold"), Lit("momentum"), Cat(<<Lit("trend"), Plus(Space), Lit("analysis")>>)>>),
       \* (chart\s+pattern|candlestick)
       Alt(<<Cat(<<Lit("chart"), Plus(Space), Lit("pattern")>>), Lit("candlestick")>>)>>,
   keywords |-> <<
       "technical analysis", "technicals", "rsi", "macd", "bollinger",
       "moving average", "sma", "ema", "support", "resistance",
       "overbought", "oversold", "momentum", "chart", "trend analysis",
       "candlestick", "technical indicators">>],
  [route |-> NEWS_SEARCH,
   patterns |-> <<
       \* (latest|recent|breaking|today)\s+(news|update|development|headline)
       Cat(<<Alt(<<Lit("latest"), Lit("recent"), Lit("breaking"), Lit("today")>>), Plus(Space), Alt(<<Lit("news"), Lit("update"), Lit("development"), Lit("headline")>>)>>),
       \* news\s+(about|on|for|regarding)
       Cat(<<Lit("news"), Plus(Space), Alt(<<Lit("about"), Lit("on"), Lit("for"), Lit("regarding")>>)>>),
       \* what\s+(happened|is\s+happening|is\s+going\s+on)
       Cat(<<Lit("what"), Plus(Space), Alt(<<Lit("happened"), Cat(<<Lit("is"), Plus(Space), Lit("happening")>>), Cat(<<Lit("is"), Plus(Space), Lit("going"), Plus(Space), Lit("on")>>)>>)>>),
       \* (tell\s+me\s+about|information\s+about|info\s+on)
       Alt(<<Cat(<<Lit("tell"), Plus(Space), Lit("me"), Plus(Space), Lit("about")>>), Cat(<<Lit("information"), Plus(Space), Lit("about")>>), Cat(<<Lit("info"), Plus(Space), Lit("on")>>)>>)>>,
   keywords |-> <<
       "news", "latest", "recent news", "breaking", "headlines",
       "what happened", "update", "updates", "developments",
       "information about", "tell me about", "going on with">>]
  >>

greetings == {
    "hi", "hello", "hey", "thanks", "thank you", "good morning",
    "good evening", "bye", "ok", "okay", "yo", "sup"
  }

force_web_triggers == <<
    "dividend", "earnings", "results", "q1", "q2", "q3", "q4",
    "acquisition", "merger", "buyout", "bonus", "split", "rights",
    "target", "upgrade", "downgrade", "ipo", "launch", "deal", "news",
    "latest", "today", "recent", "announce", "declared", "buy", "sell",
    "invest", "should i", "gnpa", "nnpa", "npa", "gross npa", "net npa",
    "slippage", "provision", "provisions", "write off", "write-off",
    "writeoff", "restructured", "stressed assets", "asset quality",
    "segment", "segment wise", "segmentwise", "segment-wise", "breakup",
    "break up", "break-up", "breakdown", "break down", "quarter",
    "quarterly", "qoq", "q-o-q", "yoy", "y-o-y", "guidance", "outlook",
    "forecast", "projection", "cost of fund", "cost of funds", "nim",
    "net interest margin", "casa", "casa ratio", "credit cost",
    "credit growth", "loan book", "loan growth", "deposit growth",
    "advances", "aum", "assets under management", "disbursement",
    "collection efficiency", "recovery", "why", "reason", "because",
    "due to", "caused by", "impact of", "how come", "explain",
    "what caused", "what led to", "pressure", "margin pressure",
    "headwind", "tailwind", "concern", "risk", "worried", "fear",
    "red flag", "miss", "missed", "beat", "surprise", "disappointing",
    "weak", "strong", "robust", "poor", "stellar", "fallen", "crashed",
    "tanked", "surged", "spiked", "rallied", "dropped", "plunged",
    "soared", "jumped", "management commentary", "concall", "con call",
    "conference call", "promoter", "promoter holding", "promoter pledge",
    "pledge", "fii", "dii", "fpi", "institutional", "bulk deal",
    "block deal", "insider", "insider trading", "insider buying",
    "insider selling", "order book", "order win", "order inflow", "capex",
    "capacity", "expansion", "plant", "factory", "regulation",
    "regulatory", "sebi", "rbi circular", "policy change", "rating",
    "credit rating", "crisil", "icra", "care rating", "stake",
    "stake sale", "divestment", "stake buy", "bankruptcy", "nclt",
    "insolvency", "default", "tax", "gst", "tax benefit", "tax impact",
    "subsidy", "government", "policy", "will", "going to", "expected",
    "expect", "prediction", "next quarter", "next year", "fy25", "fy26",
    "fy27", "fy2025", "fy2026", "fy2027", "2025", "2026", "2027", "future",
    "ahead", "coming", "upcoming"
  >>

market_keywords == <<
    "market", "nifty", "sensex", "sector", "rbi", "fed", "inflation",
    "gdp", "economy", "rate", "index", "dow", "nasdaq", "s&p", "bull",
    "bear", "rally", "crash", "correction", "recession", "interest rate",
    "monetary policy", "fiscal"
  >>

crypto_words == <<
    "crypto", "cryptocurrency", "bitcoin", "ethereum", "blockchain",
    "defi", "nft", "web3", "altcoin", "token", "mining"
  >>

\* the word lists written inline in classify_query
summary_words == <<"summary", "brief", "short", "quickly", "summarise", "summarize">>
portfolio_words == <<"my portfolio", "my stocks", "my holding", "portfolio">>

\* research_agent.py FOLLOW_UP_PATTERNS
FOLLOW_UP_PATTERNS == <<
    \* ^(now|also|and|but)\s+
    Cat(<<Bol, Alt(<<Lit("now"), Lit("also"), Lit("and"), Lit("but")>>), Plus(Space)>>),
    \* ^(what about|how about|tell me about)\s+
    Cat(<<Bol, Alt(<<Lit("what about"), Lit("how about"), Lit("tell me about")>>), Plus(Space)>>),
    \* ^(stress test|re-?evaluate|recalculate|redo)\s+
    Cat(<<Bol, Alt(<<Lit("stress test"), Cat(<<Lit("re"), Opt(Lit("-")), Lit("evaluate")>>), Lit("recalculate"), Lit("redo")>>), Plus(Space)>>),
    \* ^(assuming|if|under|with)\s+
    Cat(<<Bol, Alt(<<Lit("assuming"), Lit("if"), Lit("under"), Lit("with")>>), Plus(Space)>>),
    \* ^(compare that|compare it|versus|vs)\s+
    Cat(<<Bol, Alt(<<Lit("compare that"), Lit("compare it"), Lit("versus"), Lit("vs")>>), Plus(Space)>>),
    \* \b(the same stock|that stock|those stocks|same company)\b
    Cat(<<WordBoundary, Alt(<<Lit("the same stock"), Lit("that stock"), Lit("those stocks"), Lit("same company")>>), WordBoundary>>),
    \* \b(its|their)\s+(price|fundamentals?|technicals?|pe|revenue|earnings|target|recommendation)
    Cat(<<WordBoundary, Alt(<<Lit("its"), Lit("their")>>), Plus(Space), Alt(<<Lit("price"), Cat(<<Lit("fundamental"), Opt(Lit("s"))>>), Cat(<<Lit("technical"), Opt(Lit("s"))>>), Lit("pe"), Lit("revenue"), Lit("earnings"), Lit("target"), Lit("recommendation")>>)>>),
    \* ^(why|how come|explain)\s+
    Cat(<<Bol, Alt(<<Lit("why"), Lit("how come"), Lit("explain")>>), Plus(Space)>>),
    \* \b(instead|rather|alternatively)\b
    Cat(<<WordBoundary, Alt(<<Lit("instead"), Lit("rather"), Lit("alternatively")>>), WordBoundary>>),
    \* ^(deeper|more detail|elaborate|expand)\s*
    Cat(<<Bol, Alt(<<Lit("deeper"), Lit("more detail"), Lit("elaborate"), Lit("expand")>>), Star(Space)>>),
    \* ^(and\s+)?(what|how)\s+(about|is)\s+(its|their|the)\b
    Cat(<<Bol, Opt(Cat(<<Lit("and"), Plus(Space)>>)), Alt(<<Lit("what"), Lit("how")>>), Plus(Space), Alt(<<Lit("about"), Lit("is")>>), Plus(Space), Alt(<<Lit("its"), Lit("their"), Lit("the")>>), WordBoundary>>),
    \* ^(also|now)\s+(show|get|check|tell)
    Cat(<<Bol, Alt(<<Lit("also"), Lit("now")>>), Plus(Space), Alt(<<Lit("show"), Lit("get"), Lit("check"), Lit("tell")>>)>>)
  >>

\* research_agent.py DEEP_TRIGGERS, each used as a regex
DEEP_TRIGGERS == <<
    \* deep
    Lit("deep"),
    \* detailed
    Lit("detailed"),
    \* comprehensive
    Lit("comprehensive"),
    \* full analysis
    Lit("full analysis"),
    \* investment memo
    Lit("investment memo"),
    \* bull and bear
    Lit("bull and bear"),
    \* bull vs bear
    Lit("bull vs bear"),
    \* bull case
    Lit("bull case"),
    \* bear case
    Lit("bear case"),
    \* scenario analysis
    Lit("scenario analysis"),
    \* sensitivity
    Lit("sensitivity"),
    \* stress test
    Lit("stress test"),
    \* peer comparison
    Lit("peer comparison"),
    \* peer benchmark
    Lit("peer benchmark"),
    \* benchmarking
    Lit("benchmarking"),
    \* fundamental analysis
    Lit("fundamental analysis"),
    \* dcf
    Lit("dcf"),
    \* valuation model
    Lit("valuation model"),
    \* compare.*fundamental
    Cat(<<Lit("compare"), Star(AnyChar), Lit("fundamental")>>),
    \* generate.*memo
    Cat(<<Lit("generate"), Star(AnyChar), Lit("memo")>>),
    \* write.*report
    Cat(<<Lit("write"), Star(AnyChar), Lit("report")>>),
    \* overlooked risks
    Lit("overlooked risks"),
    \* hidden risks
    Lit("hidden risks"),
    \* what should i analyze
    Lit("what should i analyze"),
    \* based on my.*preference
    Cat(<<Lit("based on my"), Star(AnyChar), Lit("preference")>>),
    \* past preference
    Lit("past preference")
  >>

\* research_agent.py NEEDS_CLARIFICATION_PATTERNS, in the order of the dict
NEEDS_CLARIFICATION_PATTERNS == <<
  [category |-> "time_horizon",
   patterns |-> <<
       \* should i (buy|invest|hold)
       Cat(<<Lit("should i "), Alt(<<Lit("buy"), Lit("invest"), Lit("hold")>>)>>),
       \* (good|worth) (investment|buying)
       Cat(<<Alt(<<Lit("good"), Lit("worth")>>), Lit(" "), Alt(<<Lit("investment"), Lit("buying")>>)>>),
       \* (invest|put money) in
       Cat(<<Alt(<<Lit("invest"), Lit("put money")>>), Lit(" in")>>)>>],
  [category |-> "scenario",
   patterns |-> <<
       \* stress test
       Lit("stress test"),
       \* scenario
       Lit("scenario"),
       \* what if
       Lit("what if"),
       \* assuming
       Lit("assuming")>>],
  [category |-> "comparison_scope",
   patterns |-> <<
       \* compare.*(sector|industry|peer)
       Cat(<<Lit("compare"), Star(AnyChar), Alt(<<Lit("sector"), Lit("industry"), Lit("peer")>>)>>),
       \* benchmark
       Lit("benchmark")>>]
  >>

\* \b[A-Z][A-Z0-9&\-]{1,15}\b
UPPER_TOKEN == Cat(<<WordBoundary, In(UpperChars), Rep(In(UpperChars \o DigitChars \o "&" \o "-"), 1, 15), WordBoundary>>)

(***************************************************************************)
(* analyst.py: resolve_stock_from_query                                    *)
(***************************************************************************)
CRYPTO_GENERAL == "__CRYPTO_GENERAL__"

\* STOCK_NAME_MAP.keys()
StockNames == [k \in 1..Len(STOCK_NAME_MAP) |-> STOCK_NAME_MAP[k][1]]

\* STOCK_NAME_MAP[name]
StockSymbol(name) ==
  STOCK_NAME_MAP[CHOOSE k \in 1..Len(STOCK_NAME_MAP) : STOCK_NAME_MAP[k][1] = name][2]

\* sorted(STOCK_NAME_MAP.keys(), key=len, reverse=True).  The sort is stable:
\* a name comes after every longer name and after the names of its own length
\* that precede it in the dict.
NameRank ==
  [k \in 1..Len(StockNames) |->
     1 + Cardinality({j \in 1..Len(StockNames) :
           \/ Len(StockNames[j]) > Len(StockNames[k])
           \/ (Len(StockNames[j]) = Len(StockNames[k]) /\ j < k)})]

\* the keys as the dict lists them, without the sort
unsorted_names == StockNames

sorted_names ==
  [p \in 1..Len(StockNames) |->
     StockNames[CHOOSE k \in 1..Len(StockNames) : NameRank[k] = p]]

\* an iteration that appends whatever the alias maps to
AliasStepAppendAll(name, st) ==
  IF Contains(st.q_lower, name)
    THEN [q_lower |-> replace(st.q_lower, name, " "),
          found   |-> Append(st.found, StockSymbol(name))]
    ELSE st

\* one iteration of "for name in sorted_names", on the pair (q_lower, found)
AliasStep(name, st) ==
  IF Contains(st.q_lower, name)
    THEN LET symbol == StockSymbol(name)
         IN  [q_lower |-> replace(st.q_lower, name, " "),
              found   |-> IF symbol \notin Range(st.found) /\ symbol # CRYPTO_GENERAL
                            THEN Append(st.found, symbol)
                            ELSE st.found]
    ELSE st

\* "for name in sorted_names" from position k on: the iterations whose name is
\* not in q_lower change nothing, so the scan goes from hit to hit
RECURSIVE AliasScan(_, _)
AliasScan(k, st) ==
  LET subs == Substrings(st.q_lower)
      hits == {j \in k..Len(sorted_names) : sorted_names[j] \in subs}
  IN  IF hits = {} THEN st
      ELSE LET j == CHOOSE x \in hits : \A y \in hits : x <= y
           IN  AliasScan(j + 1, AliasStep(sorted_names[j], st))

\* "for word in re.findall(...)": append the tokens that are SYMBOL_MAP keys
RECURSIVE TokenScan(_, _)
TokenScan(words, found) ==
  IF words = <<>> THEN found
  ELSE TokenScan(Tail(words),
                 IF Head(words) \in SYMBOL_MAP /\ Head(words) \notin Range(found)
                   THEN Append(found, Head(words))
                   ELSE found)

\* the list after step 1 (alias names)
AliasMatches(query) == AliasScan(1, [q_lower |-> lower(query), found |-> <<>>]).found

resolve_stock_from_query(query) ==
  TokenScan(findall(UPPER_TOKEN, query), AliasMatches(query))

\* analyst.py: is_crypto_query
is_crypto_query(query) == ContainsAny(lower(query), crypto_words)

(***************************************************************************)
(* analyst.py: classify_query                                              *)
(***************************************************************************)
\* the gate without its length test
IsGreetingExactOnly(q_lower) == q_lower \in greetings

\* line 352: the greeting gate
IsGreeting(q_lower) == q_lower \in greetings \/ Len(q_lower) < 4

\* line 361
IsSummary(q_lower) == ContainsAny(q_lower, summary_words)

\* the triggers compared with the whole query
ForceWebWholeQuery(q_lower) == q_lower \in Range(force_web_triggers)

\* line 420
ForceWeb(q_lower) == ContainsAny(q_lower, force_web_triggers)

\* lines 424-438: one intent group matches by a regex or by a keyword
IntentMatches(intent, q_lower) ==
  SearchAny(intent.patterns, q_lower) \/ ContainsAny(q_lower, intent.keywords)

\* the walk without the breaks of lines 431 and 433: the last matching group wins
RECURSIVE MatchIntentLast(_, _)
MatchIntentLast(k, q_lower) ==
  IF k > Len(INTENT_PATTERNS) THEN None
  ELSE LET later == MatchIntentLast(k + 1, q_lower)
       IN  IF later # None THEN later
           ELSE IF IntentMatches(INTENT_PATTERNS[k], q_lower)
                  THEN INTENT_PATTERNS[k].route
                  ELSE None

\* lines 423-438: the route of the first intent group that matches
RECURSIVE MatchIntent(_, _)
MatchIntent(k, q_lower) ==
  IF k > Len(INTENT_PATTERNS) THEN None
  ELSE IF IntentMatches(INTENT_PATTERNS[k], q_lower) THEN INTENT_PATTERNS[k].route
  ELSE MatchIntent(k + 1, q_lower)

\* the dicts of the return statements, in the order of the source
GreetingReturn ==
  [route |-> CONVERSATIONAL, symbols |-> <<>>, is_summary |-> FALSE,
   needs_web |-> FALSE, intent |-> "greeting"]

ComparisonReturn(mentioned_symbols, is_summary, needs_web) ==
  [route |-> COMPARISON, symbols |-> mentioned_symbols, is_summary |-> is_summary,
   needs_web |-> needs_web, intent |-> "compare_stocks"]

PriceReturn(mentioned_symbols, is_summary, needs_web) ==
  [route |-> STOCK_PRICE, symbols |-> mentioned_symbols, is_summary |-> is_summary,
   needs_web |-> needs_web, intent |-> "price_lookup"]

RecommendationsReturn(mentioned_symbols, is_summary, needs_web) ==
  [route |-> RECOMMENDATIONS, symbols |-> mentioned_symbols, is_summary |-> is_summary,
   needs_web |-> TRUE, intent |-> "analyst_recommendations"]

\* a fundamentals result that leaves needs_web to the triggers
FundamentalsReturnByTrigger(mentioned_symbols, is_summary, needs_web) ==
  [route |-> FUNDAMENTALS, symbols |-> mentioned_symbols, is_summary |-> is_summary,
   needs_web |-> needs_web, intent |-> "fundamental_analysis"]

FundamentalsReturn(mentioned_symbols, is_summary, needs_web) ==
  [route |-> FUNDAMENTALS, symbols |-> mentioned_symbols, is_summary |-> is_summary,
   needs_web |-> TRUE, intent |-> "fundamental_analysis"]

TechnicalsReturn(mentioned_symbols, is_summary, needs_web) ==
  [route |-> TECHNICALS, symbols |-> mentioned_symbols, is_summary |-> is_summary,
   needs_web |-> needs_web, intent |-> "technical_analysis"]

NewsReturn(mentioned_symbols, is_summary, needs_web, is_crypto) ==
  [route |-> NEWS_SEARCH, symbols |-> mentioned_symbols, is_summary |-> is_summary,
   needs_web |-> TRUE, intent |-> "news_search", is_crypto |-> is_crypto]

PortfolioReturn(q_lower, portfolio_mentioned, is_summary, needs_web) ==
  [route |-> PORTFOLIO, symbols |-> portfolio_mentioned, is_summary |-> is_summary,
   needs_web |-> needs_web,
   intent |-> IF ContainsAny(q_lower, portfolio_words)
                THEN "portfolio_analysis" ELSE "portfolio_stock"]

DiscoveryReturn(mentioned_symbols, discovery_mentioned, portfolio_mentioned, is_summary) ==
  [route |-> DISCOVERY, symbols |-> mentioned_symbols,
   discovery_symbols |-> discovery_mentioned,
   portfolio_symbols |-> portfolio_mentioned,
   is_summary |-> is_summary, needs_web |-> TRUE, intent |-> "stock_discovery"]

MarketReturn(mentioned_symbols, is_summary, needs_web) ==
  [route |-> GENERAL_MARKET, symbols |-> mentioned_symbols, is_summary |-> is_summary,
   needs_web |-> needs_web, intent |-> "market_overview"]

CryptoNewsReturn(is_summary) ==
  [route |-> NEWS_SEARCH, symbols |-> <<>>, is_summary |-> is_summary,
   needs_web |-> TRUE, intent |-> "crypto_news", is_crypto |-> TRUE]

FallbackDiscoveryReturn(mentioned_symbols, discovery_mentioned, portfolio_mentioned, is_summary) ==
  [route |-> DISCOVERY, symbols |-> mentioned_symbols,
   discovery_symbols |-> IF discovery_mentioned # <<>>
                           THEN discovery_mentioned ELSE mentioned_symbols,
   portfolio_symbols |-> portfolio_mentioned,
   is_summary |-> is_summary, needs_web |-> TRUE, intent |-> "general_stock_query"]

GeneralFinanceReturn(is_summary, needs_web) ==
  [route |-> GENERAL_MARKET, symbols |-> <<>>, is_summary |-> is_summary,
   needs_web |-> needs_web, intent |-> "general_finance"]

\* a function that ends without a return statement
FallThrough == [route |-> None]

ChatReturn ==
  [route |-> CONVERSATIONAL, symbols |-> <<>>, is_summary |-> FALSE,
   needs_web |-> FALSE, intent |-> "general_chat"]

\* the matched route kept as it is
KeepMatchedRoute(matched_route, n) == matched_route

\* lines 450-451: a comparison of a single symbol becomes a price lookup
ComparisonDowngrade(matched_route, n) ==
  IF matched_route = COMPARISON /\ n = 1 THEN STOCK_PRICE ELSE matched_route

\* lines 507-514: the matched route when no symbol was mentioned
AbandonRoute(matched_route, no_symbols) ==
  IF matched_route = STOCK_PRICE /\ no_symbols THEN None
  ELSE IF matched_route = RECOMMENDATIONS /\ no_symbols THEN NEWS_SEARCH
  ELSE IF matched_route = FUNDAMENTALS /\ no_symbols THEN None
  ELSE IF matched_route = TECHNICALS /\ no_symbols THEN None
  ELSE matched_route

\* the portfolio symbols as given, without upper()
portfolio_syms_as_given(portfolio_symbols) == Range(portfolio_symbols)

\* line 520
portfolio_syms(portfolio_symbols) ==
  {upper(portfolio_symbols[k]) : k \in 1..Len(portfolio_symbols)}

\* the tail with the market keywords tested before the portfolio and
\* discovery returns
ClassifyTailMarketFirst(q_lower, matched_in, mentioned_symbols, is_crypto, is_summary, needs_web_in, portfolio_symbols) ==
  LET no_symbols == mentioned_symbols = <<>>
      matched_route == AbandonRoute(matched_in, no_symbols)
      needs_web == needs_web_in \/ matched_route = NEWS_SEARCH
      portfolio_mentioned ==
        FilterSeq(mentioned_symbols, portfolio_syms(portfolio_symbols))
      discovery_mentioned ==
        FilterSeq(mentioned_symbols,
                  Range(mentioned_symbols) \ portfolio_syms(portfolio_symbols))
  IN
  IF ContainsAny(q_lower, market_keywords)
    THEN MarketReturn(mentioned_symbols, is_summary, needs_web)
  ELSE IF matched_route = None /\ discovery_mentioned = <<>> /\ portfolio_mentioned # <<>>
    THEN PortfolioReturn(q_lower, portfolio_mentioned, is_summary, needs_web)
  ELSE IF matched_route = None /\ discovery_mentioned # <<>>
    THEN DiscoveryReturn(mentioned_symbols, discovery_mentioned, portfolio_mentioned,
                         is_summary)
  ELSE IF is_crypto /\ no_symbols
    THEN CryptoNewsReturn(is_summary)
  ELSE IF ~no_symbols
    THEN FallbackDiscoveryReturn(mentioned_symbols, discovery_mentioned,
                                 portfolio_mentioned, is_summary)
  ELSE IF needs_web \/ SplitCount(q_lower) > 3
    THEN GeneralFinanceReturn(is_summary, needs_web)
  ELSE ChatReturn

\* lines 506-608: everything after the NEWS_SEARCH return
ClassifyTail(q_lower, matched_in, mentioned_symbols, is_crypto, is_summary, needs_web_in, portfolio_symbols) ==
  LET no_symbols == mentioned_symbols = <<>>
      matched_route == AbandonRoute(matched_in, no_symbols)
      needs_web == needs_web_in \/ matched_route = NEWS_SEARCH
      portfolio_mentioned ==
        FilterSeq(mentioned_symbols, portfolio_syms(portfolio_symbols))
      discovery_mentioned ==
        FilterSeq(mentioned_symbols,
                  Range(mentioned_symbols) \ portfolio_syms(portfolio_symbols))
  IN
  IF matched_route = None /\ discovery_mentioned = <<>> /\ portfolio_mentioned # <<>>
    THEN PortfolioReturn(q_lower, portfolio_mentioned, is_summary, needs_web)
  ELSE IF matched_route = None /\ discovery_mentioned # <<>>
    THEN DiscoveryReturn(mentioned_symbols, discovery_mentioned, portfolio_mentioned,
                         is_summary)
  ELSE IF ContainsAny(q_lower, market_keywords)
    THEN MarketReturn(mentioned_symbols, is_summary, needs_web)
  ELSE IF is_crypto /\ no_symbols
    THEN CryptoNewsReturn(is_summary)
  ELSE IF ~no_symbols
    THEN FallbackDiscoveryReturn(mentioned_symbols, discovery_mentioned,
                                 portfolio_mentioned, is_summary)
  ELSE IF needs_web \/ SplitCount(q_lower) > 3
    THEN GeneralFinanceReturn(is_summary, needs_web)
  ELSE ChatReturn

\* lines 440-504: the returns of the intent routes
ClassifyIntent(q_lower, matched_in, mentioned_symbols, is_crypto, is_summary, needs_web, portfolio_symbols) ==
  LET n == Len(mentioned_symbols)
      matched_route == ComparisonDowngrade(matched_in, n)
  IN
  IF matched_in = COMPARISON /\ n >= 2
    THEN ComparisonReturn(mentioned_symbols, is_summary, needs_web)
  ELSE IF matched_route = STOCK_PRICE /\ n > 0
    THEN PriceReturn(mentioned_symbols, is_summary, needs_web)
  ELSE IF matched_route = RECOMMENDATIONS /\ n > 0
    THEN RecommendationsReturn(mentioned_symbols, is_summary, needs_web)
  ELSE IF matched_route = FUNDAMENTALS /\ n > 0
    THEN FundamentalsReturn(mentioned_symbols, is_summary, needs_web)
  ELSE IF matched_route = TECHNICALS /\ n > 0
    THEN TechnicalsReturn(mentioned_symbols, is_summary, needs_web)
  ELSE IF matched_route = NEWS_SEARCH
    THEN NewsReturn(mentioned_symbols, is_summary, needs_web, is_crypto)
  ELSE ClassifyTail(q_lower, matched_route, mentioned_symbols, is_crypto,
                    is_summary, needs_web, portfolio_symbols)

classify_query(query, portfolio_symbols) ==
  LET q_lower == strip(lower(query))
  IN  IF IsGreeting(q_lower)
        THEN GreetingReturn
        ELSE ClassifyIntent(q_lower, MatchIntent(1, q_lower),
                            resolve_stock_from_query(query),
                            is_crypto_query(query), IsSummary(q_lower),
                            ForceWeb(q_lower), portfolio_symbols)

(***************************************************************************)
(* financial_memory.py: the conversation history                           *)
(***************************************************************************)
\* FinancialMemory.max_history
max_history == 20

\* an add_turn that keeps every turn
add_turn_unbounded(history, role, content, metadata) ==
  Append(history, [role |-> role, content |-> content, metadata |-> metadata])

\* FinancialMemory.add_turn; a turn is kept without its timestamp
add_turn(history, role, content, metadata) ==
  LET appended == Append(history, [role |-> role, content |-> content, metadata |-> metadata])
  IN  IF Len(appended) > max_history
        THEN SubSeq(appended, Len(appended) - max_history + 1, Len(appended))
        ELSE appended

\* the positions of the turns of role, for "for turn in reversed(...)"
TurnsOf(history, role) == {i \in 1..Len(history) : history[i].role = role}

Max(S) == CHOOSE x \in S : \A y \in S : x >= y

\* FinancialMemory.get_last_user_query
get_last_user_query(history) ==
  IF TurnsOf(history, "user") = {} THEN None
  ELSE history[Max(TurnsOf(history, "user"))].content

\* FinancialMemory.get_last_symbols
get_last_symbols(history) ==
  IF TurnsOf(history, "assistant") = {} THEN <<>>
  ELSE history[Max(TurnsOf(history, "assistant"))].metadata.symbols

\* FinancialMemory.get_conversation_context(last_n = 6): the number of turns
\* the context quotes (the text is empty when there is no turn)
get_conversation_context(history) == IF Len(history) > 6 THEN 6 ELSE Len(history)

(***************************************************************************)
(* research_agent.py: follow-up, mode and clarification detection          *)
(***************************************************************************)
is_follow_up(query) ==
  LET q == strip(lower(query))
      has_own_symbols == resolve_stock_from_query(query) # <<>>
  IN  IF has_own_symbols THEN FALSE ELSE SearchAny(FOLLOW_UP_PATTERNS, q)

\* explicit_mode is None or a mode name
detect_mode(query, explicit_mode) ==
  IF explicit_mode # None /\ explicit_mode # "" THEN explicit_mode
  ELSE IF SearchAny(DEEP_TRIGGERS, lower(query)) THEN "deep"
  ELSE "quick"

\* the assumptions dict of detect_clarification_need: a field is None when the
\* dict has no such key; "investment_horizon" stands for the value of that
\* preference in memory
Assumptions(time_horizon, scenario) == [time_horizon |-> time_horizon, scenario |-> scenario]

\* detect_clarification_need: <<needs_clarify, question, assumptions>>
detect_clarification_need(query, mode) ==
  LET q == lower(query)
      Matches(k) == SearchAny(NEEDS_CLARIFICATION_PATTERNS[k].patterns, q)
      asks_horizon == Matches(1) /\ ~Contains(q, "horizon") /\ ~Contains(q, "term")
      asks_scenario == Matches(2) /\ ~Contains(q, "inflation") /\ ~Contains(q, "recession")
  IN  IF mode = "quick"
        THEN <<FALSE, "", Assumptions("short-term", "base_case")>>
        ELSE <<FALSE, "",
               Assumptions(IF asks_horizon THEN "investment_horizon" ELSE None,
                           IF asks_scenario THEN "base_case" ELSE None)>>

(***************************************************************************)
(* research_agent.py: router_node                                          *)
(***************************************************************************)
SUGGESTION == "SUGGESTION"

\* lines 357-370: the route of a follow-up from the keywords of the query
FollowUpRoute(q_lower) ==
  IF ContainsAny(q_lower, <<"fundamental", "pe", "revenue", "margin", "eps", "roe", "debt">>)
    THEN FUNDAMENTALS
  ELSE IF ContainsAny(q_lower, <<"technical", "rsi", "macd", "sma", "bollinger">>)
    THEN TECHNICALS
  ELSE IF ContainsAny(q_lower, <<"recommend", "target", "analyst", "rating">>)
    THEN RECOMMENDATIONS
  ELSE IF ContainsAny(q_lower, <<"compare", "vs", "versus">>)
    THEN COMPARISON
  ELSE IF ContainsAny(q_lower, <<"price", "trading", "current", "cost">>)
    THEN STOCK_PRICE
  ELSE IF ContainsAny(q_lower, <<"news", "latest", "update">>)
    THEN NEWS_SEARCH
  ELSE DISCOVERY

\* line 374
IsSuggestionQuery(q_lower) ==
  ContainsAny(q_lower, <<"past preference", "my preference", "what should i analyze",
                         "analyze next">>)

\* lines 336-342: the query with the carried symbols appended
ResolvedQuery(query, last_symbols) ==
  query \o " (regarding " \o join(", ", last_symbols) \o ")"

\* lines 349-384: the classification after the follow-up fix and the
\* memory-aware special route, and the dict router_node returns
RouterReturn(query, mode, follow_up, carried_symbols, resolved_query, route_info) ==
  LET injects == carried_symbols # <<>> /\ route_info.symbols = <<>>
      fixes == injects /\ route_info.route \in {CONVERSATIONAL, "GENERAL", "GENERAL_MARKET"}
      q_lower == lower(query)
      suggests == IsSuggestionQuery(q_lower)
  IN  [mode           |-> mode,
       route          |-> IF suggests THEN SUGGESTION
                          ELSE IF fixes THEN FollowUpRoute(q_lower)
                          ELSE route_info.route,
       symbols        |-> IF injects THEN carried_symbols ELSE route_info.symbols,
       intent         |-> IF suggests THEN "memory_suggestion" ELSE route_info.intent,
       needs_web      |-> IF fixes THEN TRUE ELSE route_info.needs_web,
       is_follow_up   |-> follow_up,
       resolved_query |-> resolved_query]

\* lines 345-347: the resolved query is classified against the portfolio
RouterClassify(query, mode, follow_up, carried_symbols, resolved_query, stocks) ==
  RouterReturn(query, mode, follow_up, carried_symbols, resolved_query,
               classify_query(resolved_query, [k \in 1..Len(stocks) |-> upper(stocks[k])]))

\* lines 334-343: a follow-up that names no symbol carries the last symbols
RouterCarry(query, mode, follow_up, carries, last_symbols, stocks) ==
  RouterClassify(query, mode, follow_up,
                 IF carries THEN last_symbols ELSE <<>>,
                 IF carries THEN ResolvedQuery(query, last_symbols) ELSE query,
                 stocks)

\* lines 332-340
RouterFollowUp(query, mode, follow_up, last_symbols, stocks) ==
  RouterCarry(query, mode, follow_up,
              follow_up /\ last_symbols # <<>> /\ resolve_stock_from_query(query) = <<>>,
              last_symbols, stocks)

\* router_node: the fields it returns, from the state, the conversation
\* history and the stocks of PORTFOLIO
router_node(state, history, stocks) ==
  RouterFollowUp(state.query,
                 detect_mode(state.query, IF state.mode # "auto" THEN state.mode ELSE None),
                 is_follow_up(state.query), get_last_symbols(history), stocks)

(***************************************************************************)
(* research_agent.py: the other nodes.  A text is kept as a token that     *)
(* names its kind, "" being the empty text; a list that is only counted is *)
(* kept as its length.                                                     *)
(***************************************************************************)
\* a clarifier that asks in deep mode
clarifier_node_asking(state) ==
  [needs_clarification    |-> state.mode = "deep",
   clarification_question |-> "",
   user_assumptions       |-> detect_clarification_need(state.query, state.mode)[3]]

\* clarifier_node
clarifier_node(state) ==
  LET need == detect_clarification_need(state.query, state.mode)
  IN  [needs_clarification    |-> need[1],
       clarification_question |-> need[2],
       user_assumptions       |-> need[3]]

\* data_gatherer_node, lines 449-565: market_data is built from a header or
\* from one text per symbol, so it is empty only when no branch is taken
MarketData(route, symbols, mode) ==
  IF route \in {PORTFOLIO, GENERAL_MARKET} \/ symbols # <<>> THEN "market" ELSE ""

\* detect_contradictions: how many it can report at most; the first two need
\* price marks in market_data, all three need words of the news texts
MaxContradictions(market_data, all_docs) ==
  IF all_docs = 0 THEN 0 ELSE IF market_data = "" THEN 1 ELSE 3

\* data_gatherer_node on the routes without data (lines 423-447)
data_gatherer_special(state, history) ==
  IF state.route = SUGGESTION
    THEN [market_data |-> "preferences", news_data |-> "suggestion",
          research_cache |-> "", memory_context |-> "preferences",
          conversation_context |-> get_conversation_context(history),
          contradictions |-> 0, sources_count |-> 1]
    ELSE [market_data |-> "", news_data |-> "",
          research_cache |-> "", memory_context |-> "preferences",
          conversation_context |-> get_conversation_context(history),
          contradictions |-> 0, sources_count |-> 0]

\* whether data_gatherer_node runs the web search (line 583)
SearchesWeb(state) == state.needs_web \/ state.mode = "deep"

\* data_gatherer_node from line 449 on.  env is what the collaborators give:
\* documents from the hybrid search, web_docs from the web search (none when
\* it raises), mentions_web when the word "Web" occurs in their texts,
\* fresh_cache when a fresh similar research is cached, contradictions
\* detected in the texts
data_gatherer_node(state, history, env) ==
  LET market_data == MarketData(state.route, state.symbols, state.mode)
      web_docs == IF SearchesWeb(state) THEN env.web_docs ELSE 0
      found_docs == web_docs + env.documents
      all_docs == IF found_docs > 10 THEN 10 ELSE found_docs
      most == MaxContradictions(market_data, all_docs)
  IN  [market_data |-> market_data,
       news_data |-> IF all_docs = 0 THEN "No specific news found."
                     ELSE IF env.mentions_web THEN "Web sources" ELSE "sources",
       research_cache |-> IF env.fresh_cache THEN "previous research" ELSE "",
       memory_context |-> "preferences",
       conversation_context |-> get_conversation_context(history),
       contradictions |-> IF env.contradictions > most THEN most ELSE env.contradictions,
       sources_count |-> all_docs + (IF market_data # "" THEN 1 ELSE 0)]

\* a scoring in which a contradiction counts for the level, not against it
calculate_confidence_adding(sources_count, has_live_data, has_web_data, contradictions, mode) ==
  LET score == (IF sources_count >= 5 THEN 3 ELSE IF sources_count >= 2 THEN 2 ELSE 1)
               + (IF has_live_data THEN 2 ELSE 0)
               + (IF has_web_data THEN 1 ELSE 0)
               + contradictions
  IN  IF score >= 5 THEN "HIGH" ELSE IF score >= 3 THEN "MEDIUM" ELSE "LOW"

\* calculate_confidence: the level
calculate_confidence(sources_count, has_live_data, has_web_data, contradictions, mode) ==
  LET score == (IF sources_count >= 5 THEN 3 ELSE IF sources_count >= 2 THEN 2 ELSE 1)
               + (IF has_live_data THEN 2 ELSE 0)
               + (IF has_web_data THEN 1 ELSE 0)
               - contradictions
  IN  IF score >= 5 THEN "HIGH" ELSE IF score >= 3 THEN "MEDIUM" ELSE "LOW"

\* calculate_confidence: the number of reasons
confidence_reasons(has_web_data, contradictions) ==
  2 + (IF has_web_data THEN 1 ELSE 0) + (IF contradictions > 0 THEN 1 ELSE 0)

\* the attempts of the loop "for attempt in range(3)"
LlmAttempts == 3

\* analyzer_node.  succeeds_at is the attempt on which generate_content
\* answers, 0 when it raises every time
analyzer_node(state, succeeds_at) ==
  IF state.route = CONVERSATIONAL
    THEN [analysis |-> "greeting", confidence |-> "HIGH", confidence_reasons |-> 0,
          error |-> state.error, llm_calls |-> 0]
  ELSE IF succeeds_at = 0
    THEN [analysis |-> "failed", confidence |-> "LOW", confidence_reasons |-> 1,
          error |-> "error", llm_calls |-> LlmAttempts]
  ELSE LET has_web_data == state.news_data = "Web sources"
       IN  [analysis |-> "analysis",
            confidence |-> calculate_confidence(state.sources_count,
                                                state.market_data # "", has_web_data,
                                                state.contradictions, state.mode),
            confidence_reasons |-> confidence_reasons(has_web_data, state.contradictions),
            error |-> state.error, llm_calls |-> succeeds_at]

\* memo_writer_node: the report wraps the analysis in a header and a footer
memo_writer_node(state) == [final_report |-> "report: " \o state.analysis]

\* FinancialMemory.cache_research: an upsert under the id of the query
cache_research(cache, query, result, metadata) ==
  LET point_id == strip(lower(query))
  IN  {p \in cache : p.id # point_id}
        \cup {[id |-> point_id, query |-> query, result |-> result, metadata |-> metadata]}

\* ResearchAgent.analyze, lines 963-989
InitialState(query, mode) ==
  [query |-> query, mode |-> mode, route |-> "", symbols |-> <<>>, intent |-> "",
   needs_web |-> FALSE, is_follow_up |-> FALSE, resolved_query |-> query,
   needs_clarification |-> FALSE, clarification_question |-> "",
   user_assumptions |-> Assumptions(None, None),
   market_data |-> "", news_data |-> "", research_cache |-> "",
   memory_context |-> "", conversation_context |-> 0, contradictions |-> 0,
   analysis |-> "", confidence |-> "MEDIUM", confidence_reasons |-> 0,
   sources_count |-> 0, final_report |-> "", error |-> "", llm_calls |-> 0]

\* the graph merges the dict a node returns into the state
Merge(state, update) ==
  [k \in DOMAIN state |-> IF k \in DOMAIN update THEN update[k] ELSE state[k]]

\* ResearchAgent.analyze, lines 1012-1026: the dict of a completed run
SuccessResult(state) ==
  [report |-> state.final_report, route |-> state.route, mode |-> state.mode,
   confidence |-> state.confidence, symbols |-> state.symbols,
   contradictions |-> state.contradictions, is_follow_up |-> state.is_follow_up,
   sources_count |-> state.sources_count, success |-> TRUE]

\* ResearchAgent.analyze, lines 994-1007: the dict of a run that raised
ErrorResult(mode) ==
  [report |-> "agent error", route |-> "ERROR", mode |-> mode, confidence |-> "LOW",
   symbols |-> <<>>, success |-> FALSE, error |-> "error"]

(***************************************************************************)
(* hybrid_search.py: reciprocal_rank_fusion.  A result is kept as a record *)
(* [content, metadata]; the score of an input result is never read.  A     *)
(* fused score is a rational number, kept as its multiple by RankScale(k)  *)
(* times 10 (weights are counted in tenths), so that sums and comparisons  *)
(* are exact.                                                              *)
(***************************************************************************)
\* the default of the parameter k
rrf_k == 60

\* the length of the prefix of the content that makes the document key
key_chars == 200

\* the longest ranked list given to the fusion
MaxResults == 3

RECURSIVE RankProduct(_, _)
RankProduct(k, n) == IF n = 0 THEN 1 ELSE (k + n) * RankProduct(k, n - 1)

\* the common denominator of 1 / (k + rank), rank in 1..MaxResults
RankScale(k) == RankProduct(k, MaxResults)

\* weight * (k + rank)
RankShareTimes(weight, k, rank) == weight * (k + rank)

\* weight / (k + rank), weight in tenths
RankShare(weight, k, rank) == weight * (RankScale(k) \div (k + rank))

\* content[:n]
Prefix(content, n) == IF Len(content) > n THEN SubSeq(content, 1, n) ELSE content

\* doc_key: the first 200 characters of the content, stripped
doc_key(content) == strip(Prefix(content, key_chars))

\* the position of key in the dict doc_scores (kept in insertion order), 0
\* when it is not a key of the dict
KeyIndex(doc_scores, key) ==
  IF \E i \in 1..Len(doc_scores) : doc_scores[i].key = key
    THEN CHOOSE i \in 1..Len(doc_scores) : doc_scores[i].key = key
    ELSE 0

\* the body of either scoring loop: the result at rank adds its share to the
\* item of its key, which is created with the first content and metadata seen
ScoreResult(doc_scores, item, weight, k, rank) ==
  LET key == doc_key(item.content)
      at == KeyIndex(doc_scores, key)
      share == RankShare(weight, k, rank)
  IN  IF at = 0
        THEN Append(doc_scores, [key |-> key, rrf_score |-> share,
                                 content |-> item.content, metadata |-> item.metadata])
        ELSE [doc_scores EXCEPT ![at].rrf_score = @ + share]

\* "for rank, (score, content, metadata) in enumerate(results, 1)", from rank on
RECURSIVE ScoreResults(_, _, _, _, _)
ScoreResults(doc_scores, results, weight, k, rank) ==
  IF rank > Len(results) THEN doc_scores
  ELSE ScoreResults(ScoreResult(doc_scores, results[rank], weight, k, rank),
                    results, weight, k, rank + 1)

\* the position of item i in sorted(items, key = rrf_score)
SortedPositionAscending(items, i) ==
  Cardinality({j \in 1..Len(items) :
                 \/ items[j].rrf_score < items[i].rrf_score
                 \/ items[j].rrf_score = items[i].rrf_score /\ j <= i})

\* sorted(items, key = rrf_score, reverse = True): a stable sort, items of
\* equal score keep their order
SortedPosition(items, i) ==
  Cardinality({j \in 1..Len(items) :
                 \/ items[j].rrf_score > items[i].rrf_score
                 \/ items[j].rrf_score = items[i].rrf_score /\ j <= i})

\* the items in the order of insertion into the dict
in_insertion_order(items) == items

sorted_by_score(items) ==
  [p \in 1..Len(items) |-> items[CHOOSE i \in 1..Len(items) : SortedPosition(items, i) = p]]

\* the tuples returned: (rrf_score, content, metadata)
Returned(items) ==
  [p \in 1..Len(items) |-> [rrf_score |-> items[p].rrf_score, content |-> items[p].content,
                            metadata |-> items[p].metadata]]

reciprocal_rank_fusion(vector_results, bm25_results, k, vector_weight, bm25_weight) ==
  Returned(sorted_by_score(
    ScoreResults(ScoreResults(<<>>, vector_results, vector_weight, k, 1),
                 bm25_results, bm25_weight, k, 1)))

\* HybridSearchEngine.search, lines 339-356: the results re-sorted by score,
\* then the first result of each signature content[:200].lower(), then top_k
RECURSIVE UniqueDocs(_, _, _)
UniqueDocs(fused, i, unique_docs) ==
  IF i > Len(fused) THEN unique_docs
  ELSE LET content_sig == lower(Prefix(fused[i].content, key_chars))
           seen == \E u \in 1..Len(unique_docs) :
                     lower(Prefix(unique_docs[u].content, key_chars)) = content_sig
       IN  UniqueDocs(fused, i + 1, IF seen THEN unique_docs ELSE Append(unique_docs, fused[i]))

top_results(fused, top_k) ==
  LET unique_docs == UniqueDocs(sorted_by_score(fused), 1, <<>>)
  IN  IF Len(unique_docs) > top_k THEN SubSeq(unique_docs, 1, top_k) ELSE unique_docs


\* the list of a source whose exception is not looked at
Uncaught(hits, raised) == hits

\* HybridSearchEngine.search, lines 265-292: the list of a source, empty
\* when the source raised (the except clauses)
Caught(hits, raised) == IF raised THEN <<>> ELSE hits

\* the score given to a web result, in tenths
web_score == 8

web_fallback_below == 3

\* lines 321-334: the entry appended for one web result
WebEntry(res) ==
  [rrf_score |-> web_score * RankScale(rrf_k),
   content |-> "WEB SEARCH RESULT: " \o res.title \o "\n" \o res.body,
   metadata |-> "Web: " \o res.source]

\* lines 312-317: the news results, the text results when there is no news
WebRaw(news, text) == IF news = <<>> THEN text ELSE news

\* lines 306-337: the entries the web fallback appends to the fused list
WebEntries(fused_list, news, text, web_fallback, raised) ==
  IF web_fallback /\ Len(fused_list) < web_fallback_below /\ ~raised
    THEN [i \in 1..Len(WebRaw(news, text)) |-> WebEntry(WebRaw(news, text)[i])]
    ELSE <<>>

(***************************************************************************)
(* hybrid_search.py: the keyword index and its synchronisation             *)
(***************************************************************************)
\* BM25Index.__init__: nothing indexed
EmptyIndex == [documents |-> {}, is_built |-> FALSE]

\* BM25Index.build_from_chroma, lines 83-111: the index is left as it is
\* when the collection has no document
build_from_chroma(index, docs) ==
  IF docs = {} THEN index ELSE [documents |-> docs, is_built |-> TRUE]

\* HybridSearchEngine._get_doc_count
get_doc_count(docs) == Cardinality(docs)

\* HybridSearchEngine._check_sync: the index and the recorded count after it
check_sync(index, recorded, docs) ==
  IF get_doc_count(docs) # recorded
    THEN [index |-> build_from_chroma(index, docs), doc_count |-> get_doc_count(docs)]
    ELSE [index |-> index, doc_count |-> recorded]

\* BM25Index.search, lines 118-120: the documents the keyword search ranks
Searchable(index) == IF index.is_built THEN index.documents ELSE {}
(***************************************************************************)
(* The inputs: queries and portfolios                                      *)
(***************************************************************************)
\* the most instrument mentions in a composed query
MaxMentions == 2

Openings == {"", "compare", "price of", "analyst consensus on", "fundamentals of",
             "rsi of", "latest news on", "why is"}
Mentions == {"tcs", "infosys", "google", "GRASIM"}
Joiners  == {" and ", " vs "}

\* queries of the repository's tests and demos, greetings and short inputs
ExampleQueries == {
    "hi", "Thank You ", " ok", "TCS", "buy", "hello there",
    "What is the GNPA of Bajaj Finance?", "Why is Bajaj Finance profit down?",
    "Reliance and TCS both rallied", "latest news about cryptocurrency",
    "should i buy", "how is my portfolio doing", "compare google and amazon",
    "compare amazon and google", "price of visa", "tcs in the market",
    "how is the market today", "adani green and sbi life", "bitcoin",
    "latest news on crypto", "tell me a joke", "compare the two",
    "analyst consensus on bitcoin", "should i buy ADANIGREEN or crypto",
    "tcs versus infosys stock price", "share price news",
    "price of adani green", "price of TECH MAHINDRA"
  }

\* the non-empty parts, separated by single spaces
Words(parts) == join(" ", SelectSeq(parts, LAMBDA x : x # ""))

ComposedQueries ==
  {Words(<<o, join(j, ms)>>) :
     o \in Openings, j \in Joiners,
     ms \in UNION {[1..n -> Mentions] : n \in 0..MaxMentions}}

Queries == ComposedQueries \cup ExampleQueries

\* portfolio.json as configured: none, or two holdings (one in lower case)
Portfolios == {<<>>, <<"TCS", "infy">>}

\* the runs of the pipeline in one session of the agent
MaxRuns == 2

\* the questions put to ResearchAgent.analyze and the modes asked for
PipelineQueries ==
  {"price of visa", "price of sbi life", "compare it versus rivals", "what about its fundamentals", "hi"}

\* the stocks of portfolio.json
PipelineStocks == <<"TCS", "infy">>
Modes == {"auto", "deep"}

\* what the collaborators of one run give (search engine, web search, cache)
Environments == {
    [engine_ok |-> FALSE, documents |-> 0, web_docs |-> 0, mentions_web |-> FALSE,
     fresh_cache |-> FALSE, contradictions |-> 0],
    [engine_ok |-> TRUE, documents |-> 1, web_docs |-> 0, mentions_web |-> FALSE,
     fresh_cache |-> FALSE, contradictions |-> 0],
    [engine_ok |-> TRUE, documents |-> 5, web_docs |-> 8, mentions_web |-> TRUE,
     fresh_cache |-> TRUE, contradictions |-> 3]
  }

\* the attempt on which the LLM answers; 0: never
LlmOutcomes == {0, 1, 3}

(***************************************************************************)
(* State                                                                   *)
(***************************************************************************)
VARIABLES
  query,                 \* the question put to the classifier
  portfolio_symbols,     \* the symbols of the portfolio
  pc,                    \* which call of the classifier has returned
  found,                 \* the list resolve_stock_from_query returned
  result,                \* the dict classify_query returned
  node,                  \* the node of the graph that runs next
  call,                  \* the arguments of the running ResearchAgent.analyze
  state,                 \* the AgentState of the running graph
  conversation_history,  \* FinancialMemory.conversation_history
  research_cache,        \* the points of the research cache collection
  interactions,          \* the number of points save_interaction stored
  returned,              \* the dict the last ResearchAgent.analyze returned
  runs,                  \* the calls of ResearchAgent.analyze so far
  trail,                 \* the nodes that have run in the running graph, in order
  added,                 \* every turn add_turn was called with, in order
  gathered,              \* what data_gatherer_node found and searched in the running graph
  vector_results,        \* the ranked results of the embedding search
  bm25_results,          \* the ranked results of the keyword search
  weights,               \* <<vector_weight, bm25_weight>>, in tenths
  fused,                 \* the list reciprocal_rank_fusion returned
  fpc,                   \* whether the fusion has returned
  caller,                \* the function whose completion loop runs
  attempt,               \* the loop variable of "for attempt in range(3)"
  analysis,              \* the text of the completion, None before it
  last_error,            \* the exception of the last failed call
  completions,           \* the outcome of each generate_content call made
  slept,                 \* the seconds slept between the calls
  report,                \* what the function reports after the loop
  rpc,                   \* the position in the completion loop
  engine,                \* what the sources of the search engine hold and which raise
  request,               \* the arguments of HybridSearchEngine.search
  search_results,        \* the list HybridSearchEngine.search returned
  spc,                   \* whether the search has returned
  chroma_docs,           \* the documents of the Chroma collection
  bm25_docs,             \* BM25Index.documents
  is_built,              \* BM25Index.is_built
  doc_count,             \* HybridSearchEngine._doc_count
  last_search,           \* what the last search call saw at its start
  rating,                \* the arguments of calculate_confidence
  levels,                \* the levels calculate_confidence returned, in order
  cpc                    \* whether calculate_confidence has been called

classifier_vars == <<query, portfolio_symbols, pc, found, result>>
pipeline_vars ==
  <<node, call, state, conversation_history, research_cache, interactions, returned, runs, trail, added,
    gathered>>
fusion_vars == <<vector_results, bm25_results, weights, fused, fpc>>
retry_vars == <<caller, attempt, analysis, last_error, completions, slept, report, rpc>>
search_vars == <<engine, request, search_results, spc>>
sync_vars == <<chroma_docs, bm25_docs, is_built, doc_count, last_search>>
confidence_vars == <<rating, levels, cpc>>
vars ==
  <<classifier_vars, pipeline_vars, fusion_vars, retry_vars, search_vars, sync_vars,
    confidence_vars>>

\* the variables an action of one component leaves alone
beside_classifier == <<pipeline_vars, fusion_vars, retry_vars, search_vars, sync_vars, confidence_vars>>
beside_pipeline == <<classifier_vars, fusion_vars, retry_vars, search_vars, sync_vars, confidence_vars>>
beside_fusion == <<classifier_vars, pipeline_vars, retry_vars, search_vars, sync_vars, confidence_vars>>
beside_retry == <<classifier_vars, pipeline_vars, fusion_vars, search_vars, sync_vars, confidence_vars>>
beside_search == <<classifier_vars, pipeline_vars, retry_vars, sync_vars, confidence_vars>>
beside_sync ==
  <<classifier_vars, pipeline_vars, fusion_vars, retry_vars, search_vars, confidence_vars>>
beside_confidence ==
  <<classifier_vars, pipeline_vars, fusion_vars, retry_vars, search_vars, sync_vars>>

NotGathered == [ran |-> FALSE]
NoResult == [route |-> None]
NoCall == [query |-> "", mode |-> ""]
NoState == InitialState("", "")

\* the agent after construction: an empty memory, no run
AgentInit ==
  /\ node = "idle"
  /\ call = NoCall
  /\ state = NoState
  /\ conversation_history = <<>>
  /\ research_cache = {}
  /\ interactions = 0
  /\ returned = NoResult
  /\ runs = 0
  /\ trail = <<>>
  /\ added = <<>>
  /\ gathered = NotGathered

\* no call of the classifier is in progress
ClassifierIdle ==
  /\ query = ""
  /\ pc = "idle"
  /\ found = <<>>
  /\ result = NoResult

\* no call of the fusion is in progress
FusionIdle ==
  /\ vector_results = <<>>
  /\ bm25_results = <<>>
  /\ weights = <<5, 5>>
  /\ fused = <<>>
  /\ fpc = "idle"

\* no completion loop is running
RetryIdle ==
  /\ caller = "None"
  /\ attempt = 0
  /\ analysis = None
  /\ last_error = None
  /\ completions = <<>>
  /\ slept = 0
  /\ report = None
  /\ rpc = "idle"

\* no search is running
SearchIdle ==
  /\ engine = None
  /\ request = None
  /\ search_results = <<>>
  /\ spc = "idle"

\* no search engine has been constructed
SyncIdle ==
  /\ chroma_docs = {}
  /\ bm25_docs = {}
  /\ is_built = FALSE
  /\ doc_count = 0
  /\ last_search = [searched |-> FALSE]

\* calculate_confidence has not been called
NoRating ==
  [sources_count |-> 0, has_live_data |-> FALSE, has_web_data |-> FALSE,
   contradictions |-> 0, mode |-> "quick"]

ConfidenceIdle ==
  /\ rating = NoRating
  /\ levels = <<>>
  /\ cpc = "idle"

(***************************************************************************)
(* The classifier and the resolver, called on their own                    *)
(***************************************************************************)
Init ==
  /\ query \in Queries
  /\ portfolio_symbols \in Portfolios
  /\ pc = "asked"
  /\ found = <<>>
  /\ result = NoResult
  /\ AgentInit
  /\ FusionIdle
  /\ RetryIdle
  /\ SearchIdle
  /\ SyncIdle
  /\ ConfidenceIdle

\* a caller resolves the symbols of the query (is_follow_up, router_node, api)
Resolve ==
  /\ pc = "asked"
  /\ found' = resolve_stock_from_query(query)
  /\ pc' = "resolved"
  /\ UNCHANGED <<query, portfolio_symbols, result>>
  /\ UNCHANGED beside_classifier

\* a caller classifies the query
Classify ==
  /\ pc = "resolved"
  /\ result' = classify_query(query, portfolio_symbols)
  /\ pc' = "classified"
  /\ UNCHANGED <<query, portfolio_symbols, found>>
  /\ UNCHANGED beside_classifier

Next == Resolve \/ Classify

Spec == Init /\ [][Next]_vars


(***************************************************************************)
(* calculate_confidence, called on its own: first with any arguments, then *)
(* again with one more contradiction and the other arguments as they were  *)
(***************************************************************************)
\* the most sources and the most contradictions of a call
MaxSources == 6
MaxDetected == 3

Ratings ==
  [sources_count : 0..MaxSources, has_live_data : BOOLEAN, has_web_data : BOOLEAN,
   contradictions : 0..MaxDetected, mode : {"quick", "deep"}]

\* the level of calculate_confidence for a record of arguments
LevelOf(r) ==
  calculate_confidence(r.sources_count, r.has_live_data, r.has_web_data,
                       r.contradictions, r.mode)

ConfidenceInit ==
  /\ rating \in Ratings
  /\ levels = <<>>
  /\ cpc = "asked"
  /\ portfolio_symbols = <<>>
  /\ ClassifierIdle
  /\ AgentInit
  /\ FusionIdle
  /\ RetryIdle
  /\ SearchIdle
  /\ SyncIdle

\* calculate_confidence returns
Score ==
  /\ cpc = "asked"
  /\ levels' = <<LevelOf(rating)>>
  /\ cpc' = "scored"
  /\ UNCHANGED rating
  /\ UNCHANGED beside_confidence

\* calculate_confidence is called again with one more contradiction
ScoreAgain ==
  /\ cpc = "scored"
  /\ rating.contradictions < MaxDetected
  /\ rating' = [rating EXCEPT !.contradictions = @ + 1]
  /\ levels' = Append(levels, LevelOf(rating'))
  /\ UNCHANGED cpc
  /\ UNCHANGED beside_confidence

ConfidenceNext == Score \/ ScoreAgain

ConfidenceSpec == ConfidenceInit /\ [][ConfidenceNext]_vars

(***************************************************************************)
(* The search engine over a collection that changes between the calls of   *)
(* HybridSearchEngine.search                                               *)
(***************************************************************************)
MaxDocs == 3

\* the documents a collection can hold, by their ids
SyncDocs == 1..MaxDocs

\* HybridSearchEngine.__init__ over a collection: the index is built, then
\* the count is recorded
SyncInit ==
  /\ chroma_docs \in SUBSET SyncDocs
  /\ bm25_docs = build_from_chroma(EmptyIndex, chroma_docs).documents
  /\ is_built = build_from_chroma(EmptyIndex, chroma_docs).is_built
  /\ doc_count = get_doc_count(chroma_docs)
  /\ last_search = [searched |-> FALSE]
  /\ portfolio_symbols = <<>>
  /\ ClassifierIdle
  /\ AgentInit
  /\ FusionIdle
  /\ RetryIdle
  /\ SearchIdle
  /\ ConfidenceIdle

\* a document is added to the collection (the news stream stores an article)
AddDocument ==
  /\ \E d \in SyncDocs \ chroma_docs : chroma_docs' = chroma_docs \cup {d}
  /\ UNCHANGED <<bm25_docs, is_built, doc_count, last_search>>
  /\ UNCHANGED beside_sync

\* a document is deleted from the collection
DeleteDocument ==
  /\ \E d \in chroma_docs : chroma_docs' = chroma_docs \ {d}
  /\ UNCHANGED <<bm25_docs, is_built, doc_count, last_search>>
  /\ UNCHANGED beside_sync

\* a document is replaced by another one: the count stays the same
ReplaceDocument ==
  /\ \E d \in chroma_docs, e \in SyncDocs \ chroma_docs :
       chroma_docs' = (chroma_docs \ {d}) \cup {e}
  /\ UNCHANGED <<bm25_docs, is_built, doc_count, last_search>>
  /\ UNCHANGED beside_sync

\* what the index and the count are after the _check_sync of a call
Synced == check_sync([documents |-> bm25_docs, is_built |-> is_built], doc_count, chroma_docs)

\* a call of HybridSearchEngine.search: _check_sync (line 261), then the
\* keyword search on the index (line 288); the rest of the call does not
\* touch the engine
SearchCall ==
  /\ bm25_docs' = Synced.index.documents
  /\ is_built' = Synced.index.is_built
  /\ doc_count' = Synced.doc_count
  /\ last_search' = [searched |-> TRUE, observed |-> get_doc_count(chroma_docs), recorded |-> doc_count,
                     corpus |-> chroma_docs, index_before |-> bm25_docs,
                     index_after |-> Synced.index.documents,
                     count_after |-> Synced.doc_count,
                     queried |-> Searchable(Synced.index)]
  /\ UNCHANGED chroma_docs
  /\ UNCHANGED beside_sync

SyncNext == AddDocument \/ DeleteDocument \/ ReplaceDocument \/ SearchCall

SyncSpec == SyncInit /\ [][SyncNext]_vars
(***************************************************************************)
(* The pipeline: ResearchAgent.analyze runs the graph of                   *)
(* build_research_graph, node after node                                   *)
(***************************************************************************)
PipelineInit ==
  /\ portfolio_symbols = PipelineStocks
  /\ ClassifierIdle
  /\ AgentInit
  /\ FusionIdle
  /\ RetryIdle
  /\ SearchIdle
  /\ SyncIdle
  /\ ConfidenceIdle

\* ResearchAgent.analyze(q, mode) builds the initial state and invokes the graph
Invoke ==
  /\ node = "idle"
  /\ runs < MaxRuns
  /\ \E q \in PipelineQueries, mode \in Modes :
       /\ call' = [query |-> q, mode |-> mode]
       /\ state' = InitialState(q, mode)
  /\ node' = "router"
  /\ runs' = runs + 1
  /\ returned' = NoResult
  /\ UNCHANGED <<conversation_history, research_cache, interactions>>
  /\ trail' = <<>>
  /\ UNCHANGED added
  /\ gathered' = NotGathered
  /\ UNCHANGED beside_pipeline

Router ==
  /\ node = "router"
  /\ state' = Merge(state, router_node(state, conversation_history, portfolio_symbols))
  /\ node' = "clarifier"
  /\ UNCHANGED <<call, conversation_history, research_cache, interactions, returned, runs>>
  /\ trail' = Append(trail, "router")
  /\ UNCHANGED added
  /\ UNCHANGED gathered
  /\ UNCHANGED beside_pipeline

Clarifier ==
  /\ node = "clarifier"
  /\ state' = Merge(state, clarifier_node(state))
  /\ node' = "data_gatherer"
  /\ UNCHANGED <<call, conversation_history, research_cache, interactions, returned, runs>>
  /\ trail' = Append(trail, "clarifier")
  /\ UNCHANGED added
  /\ UNCHANGED gathered
  /\ UNCHANGED beside_pipeline

\* what data_gatherer_node did on the SUGGESTION and CONVERSATIONAL routes
\* (lines 423-447): it returned before any fetch or search
GatheredSpecial ==
  [ran |-> TRUE, market_fetch |-> FALSE, retrieval |-> FALSE, web_search |-> FALSE, documents |-> 0]

\* what data_gatherer_node did otherwise: the hybrid search ran with
\* web_fallback = False and gave env.documents fused results (lines 573-579),
\* the web search ran under the test of line 583
Gathered(st, env) ==
  [ran |-> TRUE, market_fetch |-> MarketData(st.route, st.symbols, st.mode) # "",
   retrieval |-> TRUE, web_search |-> SearchesWeb(st), documents |-> env.documents]

\* data_gatherer_node returns; on the routes with data the search engine was
\* constructed and searched
DataGatherer ==
  /\ node = "data_gatherer"
  /\ \/ /\ state.route \in {SUGGESTION, CONVERSATIONAL}
        /\ state' = Merge(state, data_gatherer_special(state, conversation_history))
        /\ gathered' = GatheredSpecial
     \/ /\ state.route \notin {SUGGESTION, CONVERSATIONAL}
        /\ \E env \in Environments :
             /\ env.engine_ok
             /\ state' = Merge(state, data_gatherer_node(state, conversation_history, env))
             /\ gathered' = Gathered(state, env)
  /\ node' = "analyzer"
  /\ UNCHANGED <<call, conversation_history, research_cache, interactions, returned, runs>>
  /\ trail' = Append(trail, "data_gatherer")
  /\ UNCHANGED added
  /\ UNCHANGED beside_pipeline

\* data_gatherer_node raises: HybridSearchEngine() cannot be constructed
DataGathererRaises ==
  /\ node = "data_gatherer"
  /\ state.route \notin {SUGGESTION, CONVERSATIONAL}
  /\ \E env \in Environments : ~env.engine_ok
  /\ node' = "raised"
  /\ UNCHANGED <<call, state, conversation_history, research_cache, interactions, returned, runs>>
  /\ UNCHANGED <<trail, added>>
  /\ UNCHANGED gathered
  /\ UNCHANGED beside_pipeline

Analyzer ==
  /\ node = "analyzer"
  /\ \E succeeds_at \in LlmOutcomes :
       state' = Merge(state, analyzer_node(state, succeeds_at))
  /\ node' = "memo_writer"
  /\ UNCHANGED <<call, conversation_history, research_cache, interactions, returned, runs>>
  /\ trail' = Append(trail, "analyzer")
  /\ UNCHANGED added
  /\ UNCHANGED gathered
  /\ UNCHANGED beside_pipeline

MemoWriter ==
  /\ node = "memo_writer"
  /\ state' = Merge(state, memo_writer_node(state))
  /\ node' = "memory_saver"
  /\ UNCHANGED <<call, conversation_history, research_cache, interactions, returned, runs>>
  /\ trail' = Append(trail, "memo_writer")
  /\ UNCHANGED added
  /\ UNCHANGED gathered
  /\ UNCHANGED beside_pipeline

\* the two turns memory_saver_node adds
SavedTurns(history, st) ==
  add_turn(add_turn(history, "user", st.query,
                    [symbols |-> st.symbols, route |-> st.route, mode |-> st.mode]),
           "assistant", st.final_report, [symbols |-> st.symbols, route |-> st.route])

\* the two calls of add_turn memory_saver_node makes (lines 881-882)
SavedLog(log, st) ==
  log \o <<[role |-> "user", content |-> st.query,
            metadata |-> [symbols |-> st.symbols, route |-> st.route, mode |-> st.mode]],
          [role |-> "assistant", content |-> st.final_report,
            metadata |-> [symbols |-> st.symbols, route |-> st.route]]>>

\* a cache that takes the report of every route
CachesAnyReport(st) == st.final_report # ""

\* whether memory_saver_node caches the report (line 885)
CachesReport(st) == st.final_report # "" /\ st.route # CONVERSATIONAL

\* memory_saver_node returns.  store_ok is whether the upserts of the vector
\* store succeed; save_interaction swallows a failure
MemorySaver ==
  /\ node = "memory_saver"
  /\ \E store_ok \in BOOLEAN :
       /\ CachesReport(state) => store_ok
       /\ research_cache' =
            IF CachesReport(state)
              THEN cache_research(research_cache, state.query, state.final_report,
                                  [symbols |-> state.symbols, route |-> state.route,
                                   mode |-> state.mode])
              ELSE research_cache
       /\ interactions' = IF store_ok THEN interactions + 1 ELSE interactions
  /\ conversation_history' = SavedTurns(conversation_history, state)
  /\ node' = "end"
  /\ UNCHANGED <<call, state, returned, runs>>
  /\ trail' = Append(trail, "memory_saver")
  /\ added' = SavedLog(added, state)
  /\ UNCHANGED gathered
  /\ UNCHANGED beside_pipeline

\* memory_saver_node raises in cache_research, after the turns were added
MemorySaverRaises ==
  /\ node = "memory_saver"
  /\ CachesReport(state)
  /\ conversation_history' = SavedTurns(conversation_history, state)
  /\ node' = "raised"
  /\ UNCHANGED <<call, state, research_cache, interactions, returned, runs>>
  /\ added' = SavedLog(added, state)
  /\ UNCHANGED trail
  /\ UNCHANGED gathered
  /\ UNCHANGED beside_pipeline

\* graph.invoke returned: ResearchAgent.analyze returns the report
Return ==
  /\ node = "end"
  /\ returned' = SuccessResult(state)
  /\ state' = NoState
  /\ call' = NoCall
  /\ node' = "idle"
  /\ UNCHANGED <<conversation_history, research_cache, interactions, runs>>
  /\ trail' = <<>>
  /\ UNCHANGED added
  /\ gathered' = NotGathered
  /\ UNCHANGED beside_pipeline

\* graph.invoke raised: ResearchAgent.analyze returns the error dict
ReturnError ==
  /\ node = "raised"
  /\ returned' = ErrorResult(call.mode)
  /\ state' = NoState
  /\ call' = NoCall
  /\ node' = "idle"
  /\ UNCHANGED <<conversation_history, research_cache, interactions, runs>>
  /\ trail' = <<>>
  /\ UNCHANGED added
  /\ gathered' = NotGathered
  /\ UNCHANGED beside_pipeline

PipelineNext ==
  \/ Invoke \/ Router \/ Clarifier \/ DataGatherer \/ DataGathererRaises
  \/ Analyzer \/ MemoWriter \/ MemorySaver \/ MemorySaverRaises
  \/ Return \/ ReturnError

PipelineSpec == PipelineInit /\ [][PipelineNext]_vars


(***************************************************************************)
(* FinancialMemory.add_turn, called turn after turn as memory_saver_node   *)
(* calls it: a user turn, then the assistant's                             *)
(***************************************************************************)
MaxTurns == 22

\* the turns of a conversation: the questions, and the report that answers
TurnQueries == {"price of tcs", "hi"}

NextTurns(log) ==
  IF Len(log) % 2 = 0
    THEN {[role |-> "user", content |-> q,
           metadata |-> [symbols |-> <<>>, route |-> "GENERAL", mode |-> "quick"]] : q \in TurnQueries}
    ELSE {[role |-> "assistant", content |-> "report",
           metadata |-> [symbols |-> <<>>, route |-> "GENERAL"]]}

MemoryInit ==
  /\ portfolio_symbols = <<>>
  /\ ClassifierIdle
  /\ AgentInit
  /\ FusionIdle
  /\ RetryIdle
  /\ SearchIdle
  /\ SyncIdle
  /\ ConfidenceIdle

\* one call of FinancialMemory.add_turn
AddTurn ==
  /\ Len(added) < MaxTurns
  /\ \E turn \in NextTurns(added) :
       /\ conversation_history' = add_turn(conversation_history, turn.role, turn.content, turn.metadata)
       /\ added' = Append(added, turn)
  /\ UNCHANGED <<node, call, state, research_cache, interactions, returned, runs, trail, gathered>>
  /\ UNCHANGED beside_pipeline

MemoryNext == AddTurn

MemorySpec == MemoryInit /\ [][MemoryNext]_vars
(***************************************************************************)
(* reciprocal_rank_fusion, called on the ranked lists of one search        *)
(***************************************************************************)
RECURSIVE Repeat(_, _)
Repeat(s, n) == IF n = 0 THEN "" ELSE s \o Repeat(s, n - 1)

\* a text of 220 characters, longer than the key prefix
LongText == Repeat("Sensex closes higher. ", 10)

\* the documents of the corpus: a headline, the same headline in capitals,
\* and two reports that differ only after their first 200 characters
Headline == [content |-> "Tata Steel up 4%", metadata |-> "news-1"]
HeadlineCaps == [content |-> "TATA STEEL UP 4%", metadata |-> "news-2"]
ReportBanks == [content |-> LongText \o "Banks led the rally.", metadata |-> "news-3"]
ReportTech == [content |-> LongText \o "IT stocks lagged.", metadata |-> "news-4"]

Corpus == {Headline, HeadlineCaps, ReportBanks, ReportTech}

\* a ranked list names each document of the corpus at most once
IsRanking(xs) == \A i, j \in 1..Len(xs) : xs[i] = xs[j] => i = j

Rankings == {xs \in UNION {[1..n -> Corpus] : n \in 0..MaxResults} : IsRanking(xs)}

\* the weights the callers pass (analyst.py:1242, research_agent.py:576), the
\* defaults, a source that is switched off, and weights below zero, which
\* the function takes as it takes any number
WeightPairs == {<<5, 5>>, <<4, 6>>, <<7, 3>>, <<0, 10>>, <<-5, -5>>}

FusionInit ==
  /\ vector_results \in Rankings
  /\ bm25_results \in Rankings
  /\ weights \in WeightPairs
  /\ fused = <<>>
  /\ fpc = "given"
  /\ portfolio_symbols = <<>>
  /\ ClassifierIdle
  /\ AgentInit
  /\ RetryIdle
  /\ SearchIdle
  /\ SyncIdle
  /\ ConfidenceIdle

\* HybridSearchEngine.search fuses the two lists (lines 295-302)
Fuse ==
  /\ fpc = "given"
  /\ fused' = reciprocal_rank_fusion(vector_results, bm25_results, rrf_k, weights[1], weights[2])
  /\ fpc' = "fused"
  /\ UNCHANGED <<vector_results, bm25_results, weights>>
  /\ UNCHANGED beside_fusion

FusionNext == Fuse

FusionSpec == FusionInit /\ [][FusionNext]_vars


(***************************************************************************)
(* The completion loop of GeminiAnalyst.analyze (analyst.py, step 7) and   *)
(* of analyzer_node (research_agent.py), one generate_content call a step  *)
(***************************************************************************)
Callers == {"GeminiAnalyst.analyze", "analyzer_node"}

\* what a failing generate_content raises: the page of a blocking proxy,
\* a quota error, a timeout
LlmErrors == {"<html>blocked</html>", "429 quota exceeded", "timed out"}

firewall_words == <<"<!doctype", "<html", "too many open files", "sophos">>

\* range(3) has a next value
InRangeInclusive(i) == i <= LlmAttempts

InRange(i) == i < LlmAttempts

RECURSIVE Power2(_)
Power2(n) == IF n = 0 THEN 1 ELSE 2 * Power2(n - 1)

\* what the function reports when the loop has left analysis at None
FailureReport(by, error) ==
  IF by = "analyzer_node"
    THEN [failed |-> TRUE, analysis |-> "Analysis failed: " \o error,
          confidence |-> "LOW", error |-> error]
    ELSE [failed |-> TRUE,
          analysis |-> IF ContainsAny(lower(error), firewall_words)
                         THEN "Analysis failed: Network firewall/proxy is blocking the Gemini API."
                         ELSE "Analysis failed: " \o error,
          confidence |-> None, error |-> None]

SuccessReport(text) == [failed |-> FALSE, analysis |-> text, confidence |-> None, error |-> None]

RetryInit ==
  /\ caller \in Callers
  /\ attempt = 0
  /\ analysis = None
  /\ last_error = None
  /\ completions = <<>>
  /\ slept = 0
  /\ report = None
  /\ rpc = "loop"
  /\ portfolio_symbols = <<>>
  /\ ClassifierIdle
  /\ AgentInit
  /\ FusionIdle
  /\ SearchIdle
  /\ SyncIdle
  /\ ConfidenceIdle

\* the call returns a response: analysis = response.text; break
CallReturns ==
  /\ rpc = "loop"
  /\ InRange(attempt)
  /\ completions' = Append(completions, "ok")
  /\ analysis' = "text"
  /\ rpc' = "after"
  /\ UNCHANGED <<caller, attempt, last_error, slept, report>>
  /\ UNCHANGED beside_retry

\* the call raises: the except clause keeps the error, sleeps 2 ** attempt
\* seconds and the loop goes on
CallRaises ==
  /\ rpc = "loop"
  /\ InRange(attempt)
  /\ \E e \in LlmErrors :
       /\ completions' = Append(completions, e)
       /\ last_error' = e
  /\ slept' = slept + Power2(attempt)
  /\ attempt' = attempt + 1
  /\ rpc' = IF InRange(attempt + 1) THEN "loop" ELSE "after"
  /\ UNCHANGED <<caller, analysis, report>>
  /\ UNCHANGED beside_retry

\* after the loop: the failure is reported when analysis is None
Reports ==
  /\ rpc = "after"
  /\ report' = IF analysis = None THEN FailureReport(caller, last_error)
                                  ELSE SuccessReport(analysis)
  /\ rpc' = "returned"
  /\ UNCHANGED <<caller, attempt, analysis, last_error, completions, slept>>
  /\ UNCHANGED beside_retry

RetryNext == CallReturns \/ CallRaises \/ Reports

RetrySpec == RetryInit /\ [][RetryNext]_vars

(***************************************************************************)
(* HybridSearchEngine.search: the two sources, the fusion, the web         *)
(* fallback and the deduplication                                          *)
(***************************************************************************)
MaxHits == 2

Filing == [content |-> "Infosys files Q2 results", metadata |-> "news-5"]

SearchCorpus == {Headline, HeadlineCaps, Filing}

\* what a source can return: up to MaxHits documents of the corpus
SourceHits ==
  UNION {{xs \in [1..n -> SearchCorpus] : \A i, j \in 1..n : xs[i] = xs[j] => i = j} : n \in 0..MaxHits}

SteelNews == [title |-> "Tata Steel rallies", body |-> "Shares rose 4%.", source |-> "Mint"]
SteelPage == [title |-> "Tata Steel Ltd", body |-> "Company profile.", source |-> "Internet"]

Sources == {"vector", "bm25", "web"}

\* the engine behind a call: the hits each source has for the query, and
\* the sources that raise
Engines ==
  [vector : SourceHits, bm25 : SourceHits, news : {<<>>, <<SteelNews>>},
   text : {<<>>, <<SteelPage>>}, raises : SUBSET Sources]

Requests == [top_k : {1, 5}, web_fallback : BOOLEAN]

SearchInit ==
  /\ engine \in Engines
  /\ request \in Requests
  /\ weights = <<5, 5>>
  /\ search_results = <<>>
  /\ spc = "called"
  /\ vector_results = <<>>
  /\ bm25_results = <<>>
  /\ fused = <<>>
  /\ fpc = "idle"
  /\ portfolio_symbols = <<>>
  /\ ClassifierIdle
  /\ AgentInit
  /\ RetryIdle
  /\ SyncIdle
  /\ ConfidenceIdle

\* HybridSearchEngine.search, lines 261-356.  The keyword index is in step
\* with the store when the keyword search runs (_check_sync, line 261):
\* engine.bm25 is what it then finds.
Search ==
  /\ spc = "called"
  /\ vector_results' = Caught(engine.vector, "vector" \in engine.raises)
  /\ bm25_results' = Caught(engine.bm25, "bm25" \in engine.raises)
  /\ \E fusion \in {reciprocal_rank_fusion(vector_results', bm25_results', rrf_k,
                                           weights[1], weights[2])} :
       fused' = fusion \o WebEntries(fusion, engine.news, engine.text,
                                     request.web_fallback, "web" \in engine.raises)
  /\ search_results' = top_results(fused', request.top_k)
  /\ spc' = "returned"
  /\ UNCHANGED <<engine, request, weights, fpc>>
  /\ UNCHANGED beside_search

SearchNext == Search

SearchSpec == SearchInit /\ [][SearchNext]_vars
(***************************************************************************)
(* Properties                                                              *)
(***************************************************************************)
\* the query as classify_query normalises it (line 347)
QLower == strip(lower(query))

Classified == pc = "classified"

\* C1: a query whose trimmed, lower-cased text is a greeting phrase or is
\* shorter than 4 characters is classified CHAT with no symbols and
\* needs_web = false, whatever the portfolio and whatever the text is.
C1_GreetingGate ==
  (Classified /\ (QLower \in greetings \/ Len(QLower) < 4))
    => /\ result.route = "CHAT"
       /\ result.symbols = <<>>
       /\ result.needs_web = FALSE

\* C1 witness: the short text is itself a ticker held in the portfolio
C1_Witness ==
  /\ Classified
  /\ query = "TCS"
  /\ portfolio_symbols = <<"TCS", "infy">>
  /\ result.route = "CHAT"


\* the query is not stopped by the greeting gate of line 352
PastGate == ~(QLower \in greetings \/ Len(QLower) < 4)

\* the query matches a regex or a keyword of the comparison group
HasComparisonKeyword == IntentMatches(INTENT_PATTERNS[1], QLower)

\* the offsets of s at which text occurs
Offsets(s, text) ==
  {i \in 1..(Len(s) - Len(text) + 1) : SubSeq(s, i, i + Len(text) - 1) = text}

Min(S) == CHOOSE x \in S : \A y \in S : x <= y

\* the table rows whose alias the lower-cased query contains
MentionedNames ==
  LET subs == Substrings(lower(query))
  IN  {k \in 1..Len(STOCK_NAME_MAP) : STOCK_NAME_MAP[k][1] \in subs}

\* the rows among names that map to symbol
AliasesOf(names, symbol) == {k \in names : STOCK_NAME_MAP[k][2] = symbol}

\* where the query first mentions symbol, by an alias or as a ticker
FirstMention(names, symbol) ==
  Min(UNION {Offsets(lower(query), STOCK_NAME_MAP[k][1]) : k \in AliasesOf(names, symbol)}
        \cup Offsets(query, symbol))

\* when the resolver comes to symbol: at its longest mentioned alias, in the
\* order longest alias first and equal lengths in table order; a symbol that
\* is mentioned only as a ticker comes after every alias, in reading order
ScanRank(names, symbol) ==
  IF AliasesOf(names, symbol) # {}
    THEN Min({NameRank[k] : k \in AliasesOf(names, symbol)})
    ELSE Len(STOCK_NAME_MAP) + Min(Offsets(query, symbol))

\* the list xs is in strictly increasing order of rank
Increasing(xs, rank(_)) ==
  LET r == [i \in 1..Len(xs) |-> rank(xs[i])]
  IN  \A i, j \in 1..Len(xs) : i < j => r[i] < r[j]

\* C2 as stated: a query with a comparison keyword that resolves two or more
\* symbols is classified COMPARISON with all of those symbols, ordered by the
\* place of their first mention in the query.
C2_MentionOrder ==
  (Classified /\ PastGate /\ Len(found) >= 2 /\ HasComparisonKeyword)
    => /\ result.route = "COMPARISON"
       /\ Range(result.symbols) = Range(found)
       /\ LET names == MentionedNames
          IN  Increasing(result.symbols, LAMBDA x : FirstMention(names, x))

\* C2 amended: such a query is classified COMPARISON with exactly the list the
\* resolver returns, whose order is the resolver's scan order (aliases longest
\* first, equal lengths in table order, ticker-only symbols last) and not the
\* order of mention.
C2_ScanOrder ==
  (Classified /\ PastGate /\ Len(found) >= 2 /\ HasComparisonKeyword)
    => /\ result.route = "COMPARISON"
       /\ result.symbols = found
       /\ LET names == MentionedNames
          IN  Increasing(result.symbols, LAMBDA x : ScanRank(names, x))

\* C2 witness: the alias mentioned second is the longer one and comes first
C2_Witness ==
  /\ Classified
  /\ query = "compare tcs and infosys"
  /\ result.route = "COMPARISON"
  /\ result.symbols = <<"INFY", "TCS">>

Routed == node \notin {"idle", "router"}

\* C4: every classification result, as returned by classify_query and as
\* emitted by the router stage after follow-up resolution, has the route
\* COMPARISON only if it carries at least two symbols.
C4_ComparisonNeedsTwo ==
  /\ (Classified /\ result.route = "COMPARISON") => Len(result.symbols) >= 2
  /\ (Routed /\ state.route = "COMPARISON") => Len(state.symbols) >= 2

\* the query contains one of the force-web trigger substrings (lines 368-420)
HasWebTrigger ==
  LET subs == Substrings(QLower)
  IN  \E k \in 1..Len(force_web_triggers) : force_web_triggers[k] \in subs

\* C5: a FUNDAMENTALS, RECOMMENDATIONS or NEWS_SEARCH result has needs_web =
\* true, with or without a web-trigger keyword in the query.
C5_WebRoutes ==
  (Classified /\ result.route \in {"FUNDAMENTALS", "RECOMMENDATIONS", "NEWS_SEARCH"})
    => result.needs_web = TRUE

\* C5 witness: a fundamentals query without any trigger keyword
C5_Witness ==
  /\ Classified
  /\ ~HasWebTrigger
  /\ result.route = "FUNDAMENTALS"
  /\ result.needs_web = TRUE

\* C6: a query that passes the greeting gate and contains a force-web trigger
\* is classified with needs_web = true, whichever return it takes.
C6_TriggerForcesWeb ==
  (Classified /\ PastGate /\ HasWebTrigger) => result.needs_web = TRUE

\* C6 witness: a trigger on a route that does not itself force the web search
C6_Witness ==
  /\ Classified
  /\ query = "why is tcs"
  /\ result.route = "PORTFOLIO"
  /\ result.needs_web = TRUE

\* C7 as stated: a query whose first matching intent group is recommendations
\* and that resolves no symbol is classified NEWS_SEARCH with needs_web = true.
C7_RecommendationsRedirect ==
  (Classified /\ PastGate /\ found = <<>> /\ MatchIntent(1, QLower) = "RECOMMENDATIONS")
    => /\ result.route = "NEWS_SEARCH"
       /\ result.needs_web = TRUE

\* the portfolio as line 520 reads it
UpperPortfolio == {upper(portfolio_symbols[k]) : k \in 1..Len(portfolio_symbols)}

\* C8: when no intent group matched and symbols were resolved, the result is
\* PORTFOLIO with those symbols if all of them are portfolio symbols, and
\* otherwise DISCOVERY with needs_web = true, the full list as symbols and the
\* symbols outside the portfolio as discovery_symbols.
C8_PortfolioPartition ==
  (Classified /\ PastGate /\ found # <<>> /\ MatchIntent(1, QLower) = None)
    => IF \A i \in 1..Len(found) : found[i] \in UpperPortfolio
         THEN /\ result.route = "PORTFOLIO"
              /\ result.symbols = found
         ELSE /\ result.route = "DISCOVERY"
              /\ result.needs_web = TRUE
              /\ result.symbols = found
              /\ result.discovery_symbols =
                   SelectSeq(found, LAMBDA x : x \notin UpperPortfolio)

\* C8 witness: one symbol of the portfolio (held in lower case) and one outside
C8_Witness ==
  /\ Classified
  /\ query = "infosys and GRASIM"
  /\ portfolio_symbols = <<"TCS", "infy">>
  /\ result.route = "DISCOVERY"
  /\ result.symbols = <<"INFY", "GRASIM">>
  /\ result.discovery_symbols = <<"GRASIM">>

C10_ResolverList ==
  pc = "resolved"
    => LET names == MentionedNames
       IN
       /\ \A i, j \in 1..Len(found) : i < j => found[i] # found[j]
       /\ "__CRYPTO_GENERAL__" \notin Range(found)
       /\ \A i \in 1..Len(found) :
            \/ AliasesOf(names, found[i]) # {}
            \/ (found[i] \in SYMBOL_MAP /\ Offsets(query, found[i]) # {})
       /\ Increasing(found, LAMBDA x : ScanRank(names, x))
       /\ \A k \in names :
            (\A j \in names \ {k} :
               Offsets(STOCK_NAME_MAP[j][1], STOCK_NAME_MAP[k][1]) = {})
              => \/ STOCK_NAME_MAP[k][2] = "__CRYPTO_GENERAL__"
                 \/ STOCK_NAME_MAP[k][2] \in Range(found)
       /\ \A w \in Range(findall(UPPER_TOKEN, query)) :
            w \in SYMBOL_MAP => w \in Range(found)
       /\ (query = "Reliance and TCS both rallied" => found = <<"RELIANCE", "TCS">>)

\* C10 witness: the example of the claim, two aliases in one query
C10_Witness ==
  /\ pc = "resolved"
  /\ query = "Reliance and TCS both rallied"
  /\ found = <<"RELIANCE", "TCS">>

(***************************************************************************)
(* Claims about reciprocal_rank_fusion                                     *)
(***************************************************************************)
Fused == fpc = "fused"

\* the logical documents of the two input lists: the keys of their contents
LogicalDocs == {doc_key(x.content) : x \in Range(vector_results) \cup Range(bm25_results)}

\* what one list contributes to a logical document from rank r on:
\* weight / (k + rank) for each of its ranks there, nothing when it is
\* absent from the list
RECURSIVE ContributionFrom(_, _, _, _)
ContributionFrom(results, weight, key, r) ==
  IF r > Len(results) THEN 0
  ELSE (IF doc_key(results[r].content) = key THEN RankShare(weight, rrf_k, r) ELSE 0)
       + ContributionFrom(results, weight, key, r + 1)

Contribution(results, weight, key) == ContributionFrom(results, weight, key, 1)

\* C11: reciprocal_rank_fusion gives every logical document exactly one
\* output entry, whose score is the sum over the input lists of
\* weight / (k + rank) (nothing from a list it is absent from), and the
\* output is in descending order of score.
C11_FusionScores ==
  Fused =>
    /\ \A key \in LogicalDocs :
         Cardinality({p \in 1..Len(fused) : doc_key(fused[p].content) = key}) = 1
    /\ \A p \in 1..Len(fused) :
         /\ doc_key(fused[p].content) \in LogicalDocs
         /\ fused[p].rrf_score =
              Contribution(vector_results, weights[1], doc_key(fused[p].content))
              + Contribution(bm25_results, weights[2], doc_key(fused[p].content))
    /\ \A p, q \in 1..Len(fused) : p < q => fused[p].rrf_score >= fused[q].rrf_score

\* C11 witness: a report ranked second by one list and first by the other
\* overtakes the headline that only the first list holds
C11_Witness ==
  /\ Fused
  /\ vector_results = <<Headline, ReportBanks>>
  /\ bm25_results = <<ReportBanks>>
  /\ weights = <<4, 6>>
  /\ Len(fused) = 2
  /\ fused[1].metadata = "news-3"
  /\ fused[1].rrf_score = RankShare(4, rrf_k, 2) + RankShare(6, rrf_k, 1)
  /\ fused[2].rrf_score = RankShare(4, rrf_k, 1)

\* the documents of a fused list, without their scores
Documents(results) ==
  [p \in 1..Len(results) |-> [content |-> results[p].content, metadata |-> results[p].metadata]]

\* the list is fused with itself under equal weights
FusedWithItself == Fused /\ vector_results = bm25_results /\ weights[1] = weights[2]

DistinctContents(results) ==
  \A i, j \in 1..Len(results) : results[i].content = results[j].content => i = j

DistinctKeys(results) ==
  \A i, j \in 1..Len(results) :
    doc_key(results[i].content) = doc_key(results[j].content) => i = j

KeysOf(results) == {doc_key(results[r].content) : r \in 1..Len(results)}

\* the two lists have no document in common and no weight is negative
DisjointLists ==
  /\ Fused
  /\ KeysOf(vector_results) \cap KeysOf(bm25_results) = {}
  /\ weights[1] >= 0
  /\ weights[2] >= 0

\* the result at rank r of a list is in the fused list with the score
\* weight / (k + r)
FusedFrom(results, weight, r) ==
  \E p \in 1..Len(fused) :
    /\ Documents(fused)[p] = results[r]
    /\ fused[p].rrf_score = RankShare(weight, rrf_k, r)

\* the results of a list are in the fused list in the order of the list
InListOrder(results) ==
  \A i, j \in 1..Len(results) :
    i < j => \E p, q \in 1..Len(fused) :
               p < q /\ Documents(fused)[p] = results[i] /\ Documents(fused)[q] = results[j]

\* the fused list is the concatenation of the two lists sorted by score, and
\* it keeps the order of either list
SortedConcatenation ==
  /\ Len(fused) = Len(vector_results) + Len(bm25_results)
  /\ \A r \in 1..Len(vector_results) : FusedFrom(vector_results, weights[1], r)
  /\ \A r \in 1..Len(bm25_results) : FusedFrom(bm25_results, weights[2], r)
  /\ \A p, q \in 1..Len(fused) : p < q => fused[p].rrf_score >= fused[q].rrf_score
  /\ InListOrder(vector_results)
  /\ InListOrder(bm25_results)

\* C13 as stated: for two lists with no document in common and weights that
\* are not negative, the fused ranking is the score-sorted concatenation and
\* keeps the relative order of the documents of either list.
C13_RankPreservationOfAnyLists == DisjointLists => SortedConcatenation

\* C13: the same, for lists in which no two entries have the same document
\* key.
C13_RankPreservation ==
  (DisjointLists /\ DistinctKeys(vector_results) /\ DistinctKeys(bm25_results))
    => SortedConcatenation

\* C13 witness: the only keyword result goes first, the two embedding
\* results follow in their order
C13_Witness ==
  /\ DisjointLists
  /\ weights = <<4, 6>>
  /\ vector_results = <<Headline, ReportBanks>>
  /\ bm25_results = <<HeadlineCaps>>
  /\ Documents(fused) = <<HeadlineCaps, Headline, ReportBanks>>

\* the first 200 characters of a content, ignoring case
FoldedPrefix(content) == lower(Prefix(content, key_chars))

\* what a list gives to the documents of a folded prefix
RECURSIVE FoldedContributionFrom(_, _, _, _)
FoldedContributionFrom(results, weight, prefix, r) ==
  IF r > Len(results) THEN 0
  ELSE (IF FoldedPrefix(results[r].content) = prefix THEN RankShare(weight, rrf_k, r) ELSE 0)
       + FoldedContributionFrom(results, weight, prefix, r + 1)

\* the results of a search that finds the two lists: the fused list
\* without the repeated signatures
Deduplicated == top_results(fused, Len(fused))

\* C14 as stated: input entries whose first 200 characters are the same
\* ignoring case are one entry of the output, which has the sum of their
\* rank contributions, and never two entries.
C14_MergedIgnoringCase ==
  Fused =>
    /\ \A p, q \in 1..Len(fused) :
         FoldedPrefix(fused[p].content) = FoldedPrefix(fused[q].content) => p = q
    /\ \A p \in 1..Len(Deduplicated) :
         Deduplicated[p].rrf_score =
           FoldedContributionFrom(vector_results, weights[1], FoldedPrefix(Deduplicated[p].content), 1)
           + FoldedContributionFrom(bm25_results, weights[2], FoldedPrefix(Deduplicated[p].content), 1)

LoopLeft == rpc \in {"after", "returned"}

AllRaised == \A i \in 1..Len(completions) : completions[i] /= "ok"

\* C15: in GeminiAnalyst.analyze and in analyzer_node a completion call that
\* always raises is made exactly 3 times, never a 4th time, before the
\* failure is reported, and no call is made after a call that succeeded.
C15_RetryBudget ==
  /\ Len(completions) <= 3
  /\ \A i \in 1..Len(completions) : completions[i] = "ok" => i = Len(completions)
  /\ (LoopLeft /\ AllRaised) => Len(completions) = 3
  /\ rpc = "returned" => (report.failed <=> (AllRaised /\ Len(completions) = 3))
  /\ (LoopLeft /\ ~AllRaised) => analysis /= None

\* C15 witness: analyzer_node reports the failure after three raising calls
C15_Witness ==
  /\ caller = "analyzer_node"
  /\ rpc = "returned"
  /\ report.failed
  /\ completions = <<"timed out", "429 quota exceeded", "timed out">>
  /\ slept = 7

\* C16 as stated: a request fails only when the completion retries are
\* exhausted (no failure of resolution, market data, retrieval or web search
\* makes it fail), and ResearchAgent.analyze returns a structured result in
\* every case.
C16_OnlyLlmExhaustionFails ==
  /\ node = "raised" => (state.llm_calls = LlmAttempts /\ state.error # "")
  /\ (runs > 0 /\ node = "idle") => returned.success \in BOOLEAN

Searched == spc = "returned"

\* the documents of the store sources that did not raise
LocalFound ==
  (IF "vector" \in engine.raises THEN {} ELSE Range(engine.vector))
    \cup (IF "bm25" \in engine.raises THEN {} ELSE Range(engine.bm25))

\* the contents of the web results, when the fallback ran and did not raise
WebFound ==
  IF request.web_fallback /\ "web" \notin engine.raises
       /\ Cardinality({doc_key(d.content) : d \in LocalFound}) < 3
    THEN {WebEntry(res).content : res \in Range(WebRaw(engine.news, engine.text))}
    ELSE {}

ContentsFound == {d.content : d \in LocalFound} \cup WebFound

\* C17: in HybridSearchEngine.search a source that raises contributes no
\* document: the fusion still runs and the call returns the documents of the
\* sources that succeeded (one for each signature, up to top_k).
C17_FaultsContained ==
  Searched =>
    /\ "vector" \in engine.raises => vector_results = <<>>
    /\ "bm25" \in engine.raises => bm25_results = <<>>
    /\ \A p \in 1..Len(search_results) : search_results[p].content \in ContentsFound
    /\ \A c \in ContentsFound :
         \E p \in 1..Len(fused) : FoldedPrefix(fused[p].content) = FoldedPrefix(c)
    /\ Len(search_results) =
         Min({request.top_k, Cardinality({FoldedPrefix(c) : c \in ContentsFound})})
    /\ Len(search_results) <= request.top_k

\* C17 witness: the embedding search raises and the web fallback raises, the
\* call returns the documents of the keyword search
C17_Witness ==
  /\ Searched
  /\ engine.raises = {"vector", "web"}
  /\ engine.vector = <<Filing>>
  /\ engine.bm25 = <<Headline>>
  /\ engine.news = <<SteelNews>>
  /\ request = [top_k |-> 5, web_fallback |-> TRUE]
  /\ Documents(search_results) = <<Headline>>

\* the router has returned and the turns of the run are not saved yet
RoutedBeforeSaving == node \in {"clarifier", "data_gatherer", "analyzer", "memo_writer", "memory_saver"}

\* C18 as stated: when the previous turn was saved with symbols S, not
\* empty, and the query resolves no symbol of its own and matches a follow-up
\* pattern, the router gives exactly the symbols S; a query that resolves a
\* symbol of its own is never a follow-up.
C18_CarriesExactlyLastSymbols ==
  RoutedBeforeSaving =>
    /\ (state.is_follow_up /\ get_last_symbols(conversation_history) # <<>>)
         => state.symbols = get_last_symbols(conversation_history)
    /\ state.is_follow_up => resolve_stock_from_query(state.query) = <<>>

Stages == <<"router", "clarifier", "data_gatherer", "analyzer", "memo_writer", "memory_saver">>

MostRecent(log, n) == IF Len(log) <= n THEN log ELSE SubSeq(log, Len(log) - n + 1, Len(log))

\* C20: after any sequence of add_turn calls the conversation history has
\* at most 20 turns, and it is the most recent min(n, 20) of the n turns
\* added, in the order they were added: the oldest turn is evicted.
C20_BoundedHistory ==
  /\ Len(conversation_history) <= 20
  /\ Len(conversation_history) = Min({Len(added), 20})
  /\ conversation_history = MostRecent(added, 20)

\* C20 witness: the first two of 22 turns have been evicted
C20_Witness ==
  /\ Len(added) = 22
  /\ Len(conversation_history) = 20
  /\ added[1].content = "hi"
  /\ added[3].content = "price of tcs"
  /\ conversation_history[1] = added[3]
  /\ conversation_history[20] = added[22]

HasSearched == last_search.searched

\* C21 as stated: at the start of a search call the keyword index is rebuilt
\* from the corpus when the count the call observes differs from the count
\* recorded at the last build, it is not rebuilt when they are equal, and
\* afterwards the recorded count is the observed count.
C21_RebuiltWhenCountDiffers ==
  HasSearched =>
    /\ last_search.observed # last_search.recorded
         => last_search.index_after = last_search.corpus
    /\ last_search.observed = last_search.recorded
         => last_search.index_after = last_search.index_before
    /\ last_search.count_after = last_search.observed

\* C26 as stated: after any sequence of changes of the corpus and of search
\* calls, the keyword index a search call queries holds exactly the documents
\* of the corpus at the time of the call.
C26_IndexHoldsCorpus == HasSearched => last_search.queried = last_search.corpus

\* C22 as stated: a web search is executed for a request whenever the fused
\* local result count is below 3, and whenever the classifier or the pipeline
\* demands it (needs_web, or deep mode).
C22_WebSearchWhenFewLocalResults ==
  (gathered.ran /\ gathered.retrieval) =>
    /\ gathered.documents < 3 => gathered.web_search
    /\ (state.needs_web \/ state.mode = "deep") => gathered.web_search

\* the intent groups that match the lowered query, by a regex or by a keyword
MatchingGroups ==
  {k \in 1..Len(INTENT_PATTERNS) :
     \/ SearchAny(INTENT_PATTERNS[k].patterns, QLower)
     \/ ContainsAny(QLower, INTENT_PATTERNS[k].keywords)}

\* the route of the group of a set of groups that comes first in the table
FirstGroupRoute(groups) ==
  IF groups = {} THEN None ELSE INTENT_PATTERNS[Min(groups)].route

\* the intents of the six returns of the intent groups
GroupIntents ==
  {"compare_stocks", "price_lookup", "analyst_recommendations",
   "fundamental_analysis", "technical_analysis", "news_search"}

C23_Abandoned ==
  /\ Classified
  /\ query = "share price news"
  /\ found = <<>>
  /\ MatchingGroups = {2, 6}
  /\ result.route # "NEWS_SEARCH"

\* resolve_stock_from_query has returned
Resolved == pc \in {"resolved", "classified"}

\* the mentioned aliases that lie inside no other mentioned alias
OutermostNames ==
  {l \in MentionedNames :
     \A m \in MentionedNames \ {l} :
        ~Contains(STOCK_NAME_MAP[m][1], STOCK_NAME_MAP[l][1])}

\* the lower-cased query outside the mentions of an alias
Outside(name) == replace(lower(query), name, " ")

\* the keys under which the instrument of an alias can be recorded
KeysOfAlias(name) == {StockSymbol(name), upper(name)}

\* text mentions the key: by itself or by one of its aliases
MentionsKey(text, key) ==
  \/ Contains(text, lower(key))
  \/ \E k \in 1..Len(STOCK_NAME_MAP) :
       STOCK_NAME_MAP[k][2] = key /\ Contains(text, STOCK_NAME_MAP[k][1])

\* C24 as stated: when the query mentions an alias that contains a shorter
\* alias, only the symbol of the longer alias is recorded for that mention:
\* no key of the shorter alias is in the list unless the query mentions it
\* outside the longer alias.
C24_LongestAliasOnly ==
  Resolved =>
    \A l \in OutermostNames, s \in 1..Len(STOCK_NAME_MAP) :
      LET long == STOCK_NAME_MAP[l][1]
          short == STOCK_NAME_MAP[s][1]
      IN  (short # long /\ Contains(long, short)) =>
            \A key \in KeysOfAlias(short) \ {StockSymbol(long)} :
               ~MentionsKey(Outside(long), key) => key \notin Range(found)

\* C24 for the queries that keep the letters of the longer alias in lower case
C24_LowerCaseMention ==
  /\ Resolved
  /\ query = "price of adani green"
  /\ found = <<"ADANIGREEN">>

\* the routes of the returns that carry symbols
SymbolRoutes ==
  {"COMPARISON", "STOCK_PRICE", "RECOMMENDATIONS", "FUNDAMENTALS", "TECHNICALS",
   "NEWS_SEARCH", "PORTFOLIO", "DISCOVERY"}

\* C25: a query past the greeting gate that resolves a symbol is routed
\* COMPARISON, STOCK_PRICE, RECOMMENDATIONS, FUNDAMENTALS, TECHNICALS,
\* NEWS_SEARCH, PORTFOLIO or DISCOVERY; every GENERAL or CHAT result has an
\* empty symbol list; and the fallback return "symbols present, so DISCOVERY"
\* after the market and crypto checks is never the one taken.
C25_SymbolsFixRoute ==
  Classified =>
    /\ (PastGate /\ found # <<>>) => result.route \in SymbolRoutes
    /\ result.route \in {"GENERAL", "CHAT"} => result.symbols = <<>>
    /\ result.intent # "general_stock_query"

\* a symbol and a market keyword, no intent group: not a general-market result
C25_Witness ==
  /\ Classified
  /\ query = "tcs in the market"
  /\ found = <<"TCS">>
  /\ MatchIntent(1, QLower) = None
  /\ ContainsAny(QLower, market_keywords)
  /\ result.route \in {"PORTFOLIO", "DISCOVERY"}

\* the report memo_writer_node makes of the analysis of a run whose three
\* completion calls all failed
FailureMemo == memo_writer_node([analysis |-> "failed"]).final_report

\* C27 as stated: the research cache holds only reports of successful
\* analyses, and a run whose three completion calls all failed is not
\* returned to the caller with success = true.
C27_CacheHoldsSuccessfulAnalyses ==
  /\ \A p \in research_cache : p.result # FailureMemo
  /\ (node = "idle" /\ runs > 0 /\ returned.report = FailureMemo)
       => returned.success = FALSE

\* the symbols the r-th saved run was saved with, and its question
SavedSymbols(r) == added[2 * r].metadata.symbols
SavedQuery(r) == added[2 * r - 1].content

\* C28 as stated: a follow-up inherits the symbols of the most recent saved
\* assistant turn only: it is saved with no symbols when that turn has none,
\* whatever earlier turns had, and with exactly the symbols S of that turn
\* otherwise, so that every run of a chain of follow-ups is saved with S.
C28_InheritsMostRecentSymbols ==
  \A r \in 2..(Len(added) \div 2) :
    is_follow_up(SavedQuery(r)) => SavedSymbols(r) = SavedSymbols(r - 1)

\* a graph runs on the conversational route
ConversationalRun == Routed /\ state.route = "CHAT"

\* C29: in a run on the conversational route no market data is fetched, no
\* retrieval and no web search is made, no completion is requested and
\* nothing is written to the research cache, while memory_saver_node appends
\* the user turn and then the assistant turn to the conversation history.
C29_ConversationalRunTouchesNothing ==
  /\ [](ConversationalRun =>
          /\ gathered.ran =>
               /\ ~gathered.market_fetch
               /\ ~gathered.retrieval
               /\ ~gathered.web_search
          /\ state.llm_calls = 0)
  /\ [][ConversationalRun =>
          /\ research_cache' = research_cache
          /\ (node = "memory_saver" /\ node' = "end") =>
               /\ Len(added') = Len(added) + 2
               /\ added'[Len(added) + 1].role = "user"
               /\ added'[Len(added) + 1].content = state.query
               /\ added'[Len(added) + 2].role = "assistant"
               /\ added'[Len(added) + 2].content = state.final_report
               /\ conversation_history' =
                    MostRecent(added', Len(conversation_history'))
               /\ Len(conversation_history') = Len(conversation_history) + 2]_vars

\* the greeting "hi" has gone through the graph and its turns are saved
C29_Witness ==
  /\ node = "end"
  /\ state.query = "hi"
  /\ state.route = "CHAT"
  /\ gathered = GatheredSpecial
  /\ state.llm_calls = 0
  /\ research_cache = {}
  /\ Len(conversation_history) = 2
  /\ conversation_history[1].role = "user"
  /\ conversation_history[2].role = "assistant"

\* LOW < MEDIUM < HIGH
LevelRank(level) == CASE level = "LOW" -> 1 [] level = "MEDIUM" -> 2 [] level = "HIGH" -> 3

\* C30: calculate_confidence returns HIGH only with live market data and at
\* most one contradiction, and with the other arguments fixed one more
\* contradiction never gives a higher level.
C30_ConfidenceBounds ==
  cpc = "scored" =>
    /\ levels[Len(levels)] = "HIGH"
         => (rating.has_live_data /\ rating.contradictions <= 1)
    /\ \A i \in 1..(Len(levels) - 1) : LevelRank(levels[i + 1]) <= LevelRank(levels[i])

\* HIGH with one contradiction, MEDIUM with the second
C30_Witness ==
  /\ cpc = "scored"
  /\ rating.has_live_data
  /\ rating.contradictions = 2
  /\ levels = <<"HIGH", "HIGH", "MEDIUM">>
====
